---- MODULE Spec2Model ----
(***************************************************************************)
(* A model of the geometry core of gemmini: the transform functions of     *)
(* gemmini/d2/transform2D.py, the Geometry2D entity of gemmini/d2/_gem2D.py *)
(* with its concrete shapes, and the draw list of gemmini/canvas.py.       *)
(*                                                                         *)
(* Numbers are exact integers: the rounding of floating point arithmetic   *)
(* is not modelled.  Angles and distortion rates are drawn from the values *)
(* whose trigonometric or radial factor is an integer.                     *)
(***************************************************************************)
EXTENDS Integers, Sequences, FiniteSets, Bags, TLC

VARIABLES
    mem,      \* transform2D: the ndarrays alive in memory, by array id
    coords,   \* transform2D: the arrays the caller holds, in the order returned
    hist,     \* transform2D: the functions that returned coords[2..]
    exc,      \* transform2D: name of the last function that raised, "" if none
    heap,     \* Geometry2D objects by object id
    ref,      \* the caller's variables (ori, f): object id, 0 when unbound
    gems,     \* Canvas.gems: the draw list, one figure reference per entry
    last,     \* the last call on a geometry or on the canvas
    calls,    \* number of transform method calls made so far
    ctor      \* the last constructor call and its outcome

vars == <<mem, coords, hist, exc, heap, ref, gems, last, calls, ctor>>

(***************************************************************************)
(* Bounds of the model.                                                    *)
(***************************************************************************)
\* rows of a caller's input array
MaxLen == 2

\* transform functions applied one after the other
MaxChain == 1

\* flips and reflections applied one after the other
MaxFlips == 2

\* transform method calls on the geometries
MaxT == 1

\* largest number of vertices passed to a polygon constructor
MaxVertex == 4

\* largest number of dots passed to a constructor
MaxDots == 3

\* entries of the canvas draw list
MaxGems == 2

(***************************************************************************)
(* Python values.  An optional argument is a sequence: <<>> is None.       *)
(* kwargs is a function from keyword names to values.                      *)
(***************************************************************************)
None == <<>>

Some(x) == <<x>>

NoKw == <<>>

Kw(name, value) == name :> value

(***************************************************************************)
(* numpy arrays.  nd is the number of axes, v the rows (nd = 2) or the     *)
(* numbers (nd = 1).  Python's column 0 is index 1 here.                   *)
(***************************************************************************)
ArrIds == 1..(MaxChain + MaxFlips + 4)

NoArr == [nd |-> 0, v |-> <<>>]

Arr2(rows) == [nd |-> 2, v |-> rows]

Arr1(nums) == [nd |-> 1, v |-> nums]

Fresh(m) == CHOOSE i \in ArrIds : m[i] = NoArr /\ \A j \in ArrIds : j < i => m[j] # NoArr

Ret(m, r) == [mem |-> m, ret |-> r, exc |-> FALSE, err |-> ""]

\* raise ValueError
Raise(m) == [mem |-> m, ret |-> 0, exc |-> TRUE, err |-> "ValueError"]

\* res[0] of an array without elements
IndexError(m) == [mem |-> m, ret |-> 0, exc |-> TRUE, err |-> "IndexError"]

np_copy(m, a) ==
    LET n == Fresh(m) IN Ret([m EXCEPT ![n] = m[a]], n)

\* a new array holding the given rows (np.stack, np.concatenate, np.unique, @)
np_new(m, rows) ==
    LET n == Fresh(m) IN Ret([m EXCEPT ![n] = Arr2(rows)], n)

\* transform2D.to_ndarray variant that hands back the caller's own array
to_ndarray_noCopy(m, coord) ==
    LET res == m[coord]
    IN  IF Len(res.v) = 0 THEN IndexError(m)
        ELSE IF res.nd = 1
        THEN IF Len(res.v) # 2 THEN Raise(m)
             ELSE Ret([m EXCEPT ![coord] = Arr2(<<res.v>>)], coord)
        ELSE IF Len(res.v[1]) # 2 THEN Raise(m)
        ELSE Ret(m, coord)

\* to_ndarray variant without the test of the first row
to_ndarray_firstRowUnchecked(m, coord) ==
    LET c == np_copy(m, coord)
        res == c.mem[c.ret]
    IN  IF Len(res.v) = 0 THEN IndexError(c.mem)
        ELSE IF res.nd = 1
        THEN IF Len(res.v) # 2 THEN Raise(c.mem)
             ELSE Ret([c.mem EXCEPT ![c.ret] = Arr2(<<res.v>>)], c.ret)
        ELSE c

to_ndarray(m, coord) ==
    LET c == np_copy(m, coord)
        res == c.mem[c.ret]
    IN  IF Len(res.v) = 0 THEN IndexError(c.mem)
        ELSE IF res.nd = 1
        THEN IF Len(res.v) # 2 THEN Raise(c.mem)
             ELSE Ret([c.mem EXCEPT ![c.ret] = Arr2(<<res.v>>)], c.ret)
        ELSE IF Len(res.v[1]) # 2 THEN Raise(c.mem)
        ELSE c

(***************************************************************************)
(* misc.assignArg: one value per (abbreviation, full name) pair.           *)
(***************************************************************************)
assignArg(list_abbrs, list_full_names, kwargs) ==
    LET I == DOMAIN list_abbrs
        named(i) == list_full_names[i] \in DOMAIN kwargs
        twice(i) == list_abbrs[i] # None /\ named(i)
        missing(i) == list_abbrs[i] = None /\ ~named(i)
    IN  IF \E i \in I : twice(i) \/ missing(i)
        THEN [exc |-> TRUE, v |-> <<>>]
        ELSE [exc |-> FALSE,
              v |-> [i \in I |-> IF list_abbrs[i] # None THEN list_abbrs[i][1]
                                 ELSE kwargs[list_full_names[i]]]]

(***************************************************************************)
(* math: the angles of the model and their cosine, sine and tangent.       *)
(***************************************************************************)
Angles == {0}

cos(a) == CASE a = 0 -> 1

sin(a) == CASE a = 0 -> 0

tan(a) == CASE a = 0 -> 0

(***************************************************************************)
(* In-place column arithmetic on the array with id r (res[:, c] op= k).    *)
(***************************************************************************)
MulCol(m, r, c, k) ==
    [m EXCEPT ![r].v = [i \in DOMAIN @ |-> [@[i] EXCEPT ![c] = @ * k]]]

AddCol(m, r, c, k) ==
    [m EXCEPT ![r].v = [i \in DOMAIN @ |-> [@[i] EXCEPT ![c] = @ + k]]]

\* res[:, c] = 2*k - res[:, c]
MirrorCol(m, r, c, k) ==
    [m EXCEPT ![r].v = [i \in DOMAIN @ |-> [@[i] EXCEPT ![c] = 2 * k - @]]]

\* temp = res[:, 0] taken as a view: the second assignment reads the new column
SwapCols_viewTemp(m, r) ==
    [m EXCEPT ![r].v = [i \in DOMAIN @ |-> <<@[i][2], @[i][2]>>]]

\* temp = res[:, 0].copy(); res[:, 0] = res[:, 1].copy(); res[:, 1] = temp
SwapCols(m, r) ==
    [m EXCEPT ![r].v = [i \in DOMAIN @ |-> <<@[i][2], @[i][1]>>]]

(***************************************************************************)
(* np.unique(res, axis=0): the distinct rows in lexicographic order.       *)
(***************************************************************************)
RowLess(p, q) == p[1] < q[1] \/ (p[1] = q[1] /\ p[2] < q[2])

RowSet(rows) == {rows[i] : i \in DOMAIN rows}

RECURSIVE SortRows(_)
SortRows(S) ==
    IF S = {} THEN <<>>
    ELSE LET lo == CHOOSE p \in S : \A q \in S : q = p \/ RowLess(p, q)
         IN  <<lo>> \o SortRows(S \ {lo})

np_unique(rows) == SortRows(RowSet(rows))

(***************************************************************************)
(* transform2D: scale and translate.                                       *)
(***************************************************************************)
scale(m, coord, sx, sy) ==
    LET sy1 == IF sy = None THEN sx ELSE sy[1]
        t == to_ndarray(m, coord)
    IN  IF t.exc THEN t
        ELSE Ret(MulCol(MulCol(t.mem, t.ret, 1, sx), t.ret, 2, sy1), t.ret)

scaleX(m, coord, s, kwargs) ==
    LET a == assignArg(<<s>>, <<"scale">>, kwargs)
        t == to_ndarray(m, coord)
    IN  IF a.exc THEN Raise(m)
        ELSE IF t.exc THEN t
        ELSE Ret(MulCol(t.mem, t.ret, 1, a.v[1]), t.ret)

scaleY(m, coord, s, kwargs) ==
    LET a == assignArg(<<s>>, <<"scale">>, kwargs)
        t == to_ndarray(m, coord)
    IN  IF a.exc THEN Raise(m)
        ELSE IF t.exc THEN t
        ELSE Ret(MulCol(t.mem, t.ret, 2, a.v[1]), t.ret)

\* translate variant that moves along the x axis only
translate_xOnly(m, coord, mx, my) ==
    LET t == to_ndarray(m, coord)
    IN  IF t.exc THEN t ELSE Ret(AddCol(t.mem, t.ret, 1, mx), t.ret)

translate(m, coord, mx, my) ==
    LET t == to_ndarray(m, coord)
    IN  IF t.exc THEN t
        ELSE Ret(AddCol(AddCol(t.mem, t.ret, 1, mx), t.ret, 2, my), t.ret)

translateX(m, coord, mx) ==
    LET t == to_ndarray(m, coord)
    IN  IF t.exc THEN t ELSE Ret(AddCol(t.mem, t.ret, 1, mx), t.ret)

translateY(m, coord, my) ==
    LET t == to_ndarray(m, coord)
    IN  IF t.exc THEN t ELSE Ret(AddCol(t.mem, t.ret, 2, my), t.ret)

(***************************************************************************)
(* transform2D: rotations.  np.stack((rx, ry), axis=1) is a new array.     *)
(***************************************************************************)
rotateX(m, coord, a, kwargs) ==
    LET g == assignArg(<<a>>, <<"angle">>, kwargs)
        c == to_ndarray(m, coord)
        x(i) == c.mem[c.ret].v[i][1]
        y(i) == c.mem[c.ret].v[i][2]
    IN  IF g.exc THEN Raise(m)
        ELSE IF c.exc THEN c
        ELSE np_new(c.mem, [i \in DOMAIN c.mem[c.ret].v |-> <<x(i), y(i) * cos(g.v[1])>>])

rotateY(m, coord, a, kwargs) ==
    LET g == assignArg(<<a>>, <<"angle">>, kwargs)
        c == to_ndarray(m, coord)
        x(i) == c.mem[c.ret].v[i][1]
        y(i) == c.mem[c.ret].v[i][2]
    IN  IF g.exc THEN Raise(m)
        ELSE IF c.exc THEN c
        ELSE np_new(c.mem, [i \in DOMAIN c.mem[c.ret].v |-> <<x(i) * cos(g.v[1]), y(i)>>])

rotateZ(m, coord, a, kwargs) ==
    LET g == assignArg(<<a>>, <<"angle">>, kwargs)
        c == to_ndarray(m, coord)
        x(i) == c.mem[c.ret].v[i][1]
        y(i) == c.mem[c.ret].v[i][2]
        w == g.v[1]
    IN  IF g.exc THEN Raise(m)
        ELSE IF c.exc THEN c
        ELSE np_new(c.mem, [i \in DOMAIN c.mem[c.ret].v |->
                 <<x(i) * cos(w) - y(i) * sin(w), x(i) * sin(w) + y(i) * cos(w)>>])

rotate(m, coord, a, kwargs) ==
    LET g == assignArg(<<a>>, <<"angle">>, kwargs)
    IN  IF g.exc THEN Raise(m) ELSE rotateZ(m, coord, Some(g.v[1]), NoKw)

rotate3D(m, coord, a1, a2, a3, kwargs) ==
    LET g == assignArg(<<a1, a2, a3>>, <<"yaw", "pitch", "roll">>, kwargs)
        c == to_ndarray(m, coord)
        x(i) == c.mem[c.ret].v[i][1]
        y(i) == c.mem[c.ret].v[i][2]
        w1 == g.v[1]
        w2 == g.v[2]
        w3 == g.v[3]
    IN  IF g.exc THEN Raise(m)
        ELSE IF c.exc THEN c
        ELSE np_new(c.mem, [i \in DOMAIN c.mem[c.ret].v |->
                 <<x(i) * cos(w1) * cos(w2)
                     + y(i) * (cos(w1) * sin(w2) * sin(w3) - sin(w1) * cos(w3)),
                   x(i) * sin(w1) * cos(w2)
                     + y(i) * (sin(w1) * sin(w2) * sin(w3) + cos(w1) * cos(w3))>>])

(***************************************************************************)
(* transform2D: skews.                                                     *)
(***************************************************************************)
skewX(m, coord, a, kwargs) ==
    LET g == assignArg(<<a>>, <<"angle">>, kwargs)
        c == to_ndarray(m, coord)
        x(i) == c.mem[c.ret].v[i][1]
        y(i) == c.mem[c.ret].v[i][2]
    IN  IF g.exc THEN Raise(m)
        ELSE IF c.exc THEN c
        ELSE np_new(c.mem, [i \in DOMAIN c.mem[c.ret].v |-> <<x(i) + y(i) * tan(g.v[1]), y(i)>>])

skewY(m, coord, a, kwargs) ==
    LET g == assignArg(<<a>>, <<"angle">>, kwargs)
        c == to_ndarray(m, coord)
        x(i) == c.mem[c.ret].v[i][1]
        y(i) == c.mem[c.ret].v[i][2]
    IN  IF g.exc THEN Raise(m)
        ELSE IF c.exc THEN c
        ELSE np_new(c.mem, [i \in DOMAIN c.mem[c.ret].v |-> <<x(i), x(i) * tan(g.v[1]) + y(i)>>])

skew(m, coord, a, ax, ay, kwargs) ==
    LET a1 == IF "angle" \in DOMAIN kwargs THEN Some(kwargs["angle"]) ELSE a
        ax1 == IF a1 # None THEN a1 ELSE ax
        ay1 == IF a1 # None THEN a1 ELSE ay
        c == to_ndarray(m, coord)
        x(i) == c.mem[c.ret].v[i][1]
        y(i) == c.mem[c.ret].v[i][2]
    IN  IF a1 = None /\ ax = None /\ ay = None THEN Raise(m)
        ELSE IF ax1 = None THEN skewY(m, coord, ay1, NoKw)
        ELSE IF ay1 = None THEN skewX(m, coord, ax1, NoKw)
        ELSE IF c.exc THEN c
        ELSE np_new(c.mem, [i \in DOMAIN c.mem[c.ret].v |->
                 <<x(i) + y(i) * tan(ax1[1]), x(i) * tan(ay1[1]) + y(i)>>])

(***************************************************************************)
(* transform2D: flips replace the points by their mirror images.           *)
(***************************************************************************)
flip(m, coord, p) ==
    LET t == to_ndarray(m, coord)
    IN  IF t.exc THEN t
        ELSE Ret(MirrorCol(MirrorCol(t.mem, t.ret, 1, p[1]), t.ret, 2, p[2]), t.ret)

flipX(m, coord) ==
    LET t == to_ndarray(m, coord)
    IN  IF t.exc THEN t ELSE Ret(MulCol(t.mem, t.ret, 2, -1), t.ret)

flipY(m, coord) ==
    LET t == to_ndarray(m, coord)
    IN  IF t.exc THEN t ELSE Ret(MulCol(t.mem, t.ret, 1, -1), t.ret)

flipXY(m, coord) ==
    LET t == to_ndarray(m, coord)
    IN  IF t.exc THEN t
        ELSE Ret(MulCol(MulCol(t.mem, t.ret, 1, -1), t.ret, 2, -1), t.ret)

flipDiagonal(m, coord) ==
    LET t == to_ndarray(m, coord)
    IN  IF t.exc THEN t ELSE Ret(SwapCols(t.mem, t.ret), t.ret)

(***************************************************************************)
(* transform2D: reflections merge the mirror image with the original:      *)
(* np.unique(np.concatenate((original, reflected), axis=0), axis=0).       *)
(***************************************************************************)
\* the merge forgets the original rows
Merge_reflectedOnly(o, r) ==
    IF r.exc THEN r
    ELSE np_new(r.mem, np_unique(r.mem[r.ret].v))

Merge(o, r) ==
    IF r.exc THEN r
    ELSE np_new(r.mem, np_unique(r.mem[o.ret].v \o r.mem[r.ret].v))

reflect(m, coord, p) ==
    LET original == to_ndarray(m, coord)
        cp == np_copy(original.mem, original.ret)
    IN  IF original.exc THEN original ELSE Merge(original, flip(cp.mem, cp.ret, p))

reflectX(m, coord) ==
    LET original == to_ndarray(m, coord)
        cp == np_copy(original.mem, original.ret)
    IN  IF original.exc THEN original ELSE Merge(original, flipX(cp.mem, cp.ret))

reflectY(m, coord) ==
    LET original == to_ndarray(m, coord)
        cp == np_copy(original.mem, original.ret)
    IN  IF original.exc THEN original ELSE Merge(original, flipY(cp.mem, cp.ret))

reflectXY(m, coord) ==
    LET original == to_ndarray(m, coord)
        cp == np_copy(original.mem, original.ret)
    IN  IF original.exc THEN original ELSE Merge(original, flipXY(cp.mem, cp.ret))

reflectDiagonal(m, coord) ==
    LET original == to_ndarray(m, coord)
        cp == np_copy(original.mem, original.ret)
    IN  IF original.exc THEN original ELSE Merge(original, flipDiagonal(cp.mem, cp.ret))

(***************************************************************************)
(* transform2D.dot: the matrix mat is [shape |-> <<rows, cols>>, v |-> ..]. *)
(***************************************************************************)
dot(m, coord, mat) ==
    LET c == to_ndarray(m, coord)
        x(i) == c.mem[c.ret].v[i][1]
        y(i) == c.mem[c.ret].v[i][2]
    IN  IF mat.shape # <<2, 2>> THEN Raise(m)
        ELSE IF c.exc THEN c
        ELSE np_new(c.mem, [i \in DOMAIN c.mem[c.ret].v |->
                 <<x(i) * mat.v[1][1] + y(i) * mat.v[2][1],
                   x(i) * mat.v[1][2] + y(i) * mat.v[2][2]>>])

(***************************************************************************)
(* transform2D: radial distortions.  d = sqrt(1 + rate * r^2) is modelled  *)
(* for the rate 0, where it is 1.  The centre (cx, cy) of distort is the    *)
(* mean of the points: coordinates are kept as numerators over N.          *)
(***************************************************************************)
RECURSIVE SumCol(_, _)
SumCol(rows, c) ==
    IF rows = <<>> THEN 0 ELSE rows[1][c] + SumCol(Tail(rows), c)

RadialFactor(rate) == CASE rate = 0 -> 1

\* R = np.max(r) is 0 exactly when every point lies on the centre (n*cx, n*cy)/n
MaxRadiusIsZero(rows, n, ncx, ncy) ==
    \A i \in DOMAIN rows : n * rows[i][1] = ncx /\ n * rows[i][2] = ncy

distort(m, coord, method, rate) ==
    LET rate1 == IF method = "pincushion" THEN -rate ELSE rate
        c == to_ndarray(m, coord)
        rows == c.mem[c.ret].v
        n == Len(rows)
        sx == SumCol(rows, 1)
        sy == SumCol(rows, 2)
        d == RadialFactor(rate1)
    IN  IF method \notin {"barrel", "pincushion"} THEN Raise(m)
        ELSE IF method = "pincushion" /\ rate >= 1 THEN Raise(m)
        ELSE IF c.exc THEN c
        ELSE np_new(c.mem, [i \in DOMAIN rows |->
                 <<(sx + (n * rows[i][1] - sx) \div d) \div n,
                   (sy + (n * rows[i][2] - sy) \div d) \div n>>])

focus(m, coord, p, rate) ==
    LET c == to_ndarray(m, coord)
        rows == c.mem[c.ret].v
        d == RadialFactor(rate)
    IN  IF c.exc THEN c
        ELSE np_new(c.mem, [i \in DOMAIN rows |->
                 <<p[1] + (rows[i][1] - p[1]) \div d, p[2] + (rows[i][2] - p[2]) \div d>>])

shatter(m, coord, p, rate) ==
    LET c == to_ndarray(m, coord)
        rows == c.mem[c.ret].v
        d == RadialFactor(rate)
    IN  IF c.exc THEN c
        ELSE np_new(c.mem, [i \in DOMAIN rows |->
                 <<-p[1] + (rows[i][1] + p[1]) \div d, -p[2] + (rows[i][2] + p[2]) \div d>>])

(***************************************************************************)
(* Hashing.  The arguments of a transform method call are Python values of *)
(* four kinds; an ndarray keeps its numbers flat beside its shape.         *)
(* hash(tuple) is taken to be injective and the sum of hashes to have no   *)
(* cancellation: a hash is kept as the terms it was computed from.         *)
(***************************************************************************)
PyNum(n) == [t |-> "num", n |-> n, d |-> 1, s |-> "", v |-> <<>>, shape |-> <<>>]

\* the number n / d that is no integer: d > 1 and n / d in lowest terms
PyFloat(n, d) == [t |-> "num", n |-> n, d |-> d, s |-> "", v |-> <<>>, shape |-> <<>>]

PyStr(s) == [t |-> "str", n |-> 0, d |-> 1, s |-> s, v |-> <<>>, shape |-> <<>>]

PyTuple(v) == [t |-> "tuple", n |-> 0, d |-> 1, s |-> "", v |-> v, shape |-> <<>>]

PyArray(shape, v) == [t |-> "ndarray", n |-> 0, d |-> 1, s |-> "", v |-> v, shape |-> shape]

\* the rows of an ndarray value
RowsOfArray(a) ==
    [i \in 1..a.shape[1] |-> [j \in 1..a.shape[2] |-> a.v[(i - 1) * a.shape[2] + j]]]

_convert_tuple(a) == IF a.t = "ndarray" THEN PyTuple(a.v) ELSE a

RECURSIVE items(_)
items(kwargs) ==
    IF DOMAIN kwargs = {} THEN <<>>
    ELSE LET k == CHOOSE k \in DOMAIN kwargs : TRUE
         IN  <<[k |-> k, c |-> _convert_tuple(PyNum(kwargs[k]))]>>
                 \o items([x \in DOMAIN kwargs \ {k} |-> kwargs[x]])

\* the tuple `base` whose hash is returned
get_hash(args, kwargs) ==
    [i \in DOMAIN args |-> [k |-> "", c |-> _convert_tuple(args[i])]] \o items(kwargs)

\* random.getrandbits(128) of construction number n: draws are taken to differ
getrandbits(n) == [nonce |-> n, salt |-> EmptyBag]

NoBase == [nonce |-> 0, salt |-> EmptyBag]

NoParams == [cls |-> "", p |-> <<>>]

\* Geometry2D.__hash__
Geometry2D_hash(self) == [base |-> self._base_hash, params |-> NoParams]

\* hash((self.gem_type, ...)) of the attributes a class hashes
ParamsHash(self, names) ==
    [base |-> NoBase, params |-> [cls |-> self.gem_type, p |-> [i \in DOMAIN names |-> self.attrs[names[i]]]]]

\* super().__hash__() + hash((self.gem_type, ...))
SaltedParamsHash(self, names) ==
    [base |-> self._base_hash, params |-> ParamsHash(self, names).params]

\* __hash__ as the class of self defines it
hash(self) ==
    CASE self.gem_type = "Point2D" -> ParamsHash(self, <<"px", "py">>)
      [] self.gem_type = "Pointcloud2D" -> ParamsHash(self, <<"h", "w", "nD">>)
      [] self.gem_type = "Grid" -> ParamsHash(self, <<"h", "w", "nr", "nc">>)
      [] self.gem_type = "RegularPolygon" -> SaltedParamsHash(self, <<"uS", "nV", "nD">>)
      [] self.gem_type = "Circle" -> SaltedParamsHash(self, <<"rD", "nD">>)
      [] self.gem_type = "Rectangle" -> SaltedParamsHash(self, <<"h", "w", "nD">>)
      [] self.gem_type = "ConcaveStar" -> SaltedParamsHash(self, <<"uS", "nD", "nV">>)
      [] self.gem_type = "Trapezoid" -> SaltedParamsHash(self, <<"s", "nD">>)
      [] self.gem_type = "Segment" /\ self.attrs.line_type = 0 -> SaltedParamsHash(self, <<"nD", "aG">>)
      [] self.gem_type = "Segment" /\ self.attrs.line_type # 0 -> SaltedParamsHash(self, <<"p1", "p2">>)
      [] OTHER -> Geometry2D_hash(self)

(***************************************************************************)
(* calc.geometry.concave_hull: a set of fewer than 4 points is its own     *)
(* hull (the very array is returned); the alpha shape of a larger set is a *)
(* function of the points that is not evaluated here.                      *)
(***************************************************************************)
concave_hull(xy) == [passthrough |-> Len(xy) < 4, xy |-> xy]

(***************************************************************************)
(* Geometry2D.  attrs holds the attributes the subclass set before         *)
(* Geometry2D.__init__ ran; n numbers the construction.                    *)
(***************************************************************************)
Built(o) == [exc |-> FALSE, obj |-> o]

NotBuilt == [exc |-> TRUE, obj |-> <<>>]

IsPointRows(points) == \A i \in DOMAIN points : Len(points[i]) = 2

\* base is the outcome of self._base_coords()
Geometry2D_init(gem_type, attrs, planar, base, n) ==
    IF \E a \in {"uS", "h", "w"} \cap DOMAIN attrs : attrs[a] <= 0 THEN NotBuilt
    ELSE IF base.exc THEN NotBuilt
    ELSE IF ~IsPointRows(base.rows) THEN NotBuilt
    ELSE Built([_base_hash |-> getrandbits(n),
                gem_type |-> gem_type,
                attrs |-> attrs,
                _planar |-> planar,
                _exterior |-> None,
                _interior |-> None,
                _density |-> 16,
                _points |-> base.rows])

\* the wrapper variant that keeps the cached exterior
transform_keepExterior(self, args, kwargs, r) ==
    LET salted == [self EXCEPT !._base_hash.salt = @ (+) SetToBag({get_hash(args, kwargs)}),
                               !._interior = None]
    IN  [exc |-> r.exc,
         obj |-> IF r.exc THEN salted ELSE [salted EXCEPT !._points = r.rows]]

\* the decorator `transform`: r is the outcome of the decorated method body
transform(self, args, kwargs, r) ==
    LET salted == [self EXCEPT !._base_hash.salt = @ (+) SetToBag({get_hash(args, kwargs)}),
                               !._exterior = None,
                               !._interior = None]
    IN  [exc |-> r.exc,
         obj |-> IF r.exc THEN salted ELSE [salted EXCEPT !._points = r.rows]]

\* Geometry2D.exterior: the object afterwards and the value returned
\* exterior variant that leaves the points in the reverse order
exterior_overPoints(self) ==
    IF self._exterior # None THEN [exc |-> FALSE, obj |-> self, ret |-> self._exterior]
    ELSE LET e == Some(concave_hull(self._points))
             r == [i \in DOMAIN self._points |-> self._points[Len(self._points) + 1 - i]]
         IN  [exc |-> FALSE, obj |-> [self EXCEPT !._exterior = e, !._points = r], ret |-> e]

exterior(self) ==
    IF self._exterior # None THEN [exc |-> FALSE, obj |-> self, ret |-> self._exterior]
    ELSE LET e == Some(concave_hull(self._points))
         IN  [exc |-> FALSE, obj |-> [self EXCEPT !._exterior = e], ret |-> e]

\* calc.coords.interior_pixels: the name pth is bound nowhere, no call returns
interior_pixels(e, density) == [exc |-> TRUE, ret |-> None]

\* Geometry2D.interior
interior(self, density) ==
    IF ~self._planar THEN [exc |-> FALSE, obj |-> self, ret |-> None]
    ELSE IF self._interior # None /\ self._density = density
    THEN [exc |-> FALSE, obj |-> self, ret |-> self._interior]
    ELSE LET e == exterior(self)
             i == interior_pixels(e.ret, density)
         IN  IF i.exc THEN [exc |-> TRUE, obj |-> e.obj, ret |-> None]
             ELSE [exc |-> FALSE, obj |-> [e.obj EXCEPT !._interior = i.ret], ret |-> i.ret]

\* Geometry2D.__eq__ caches the exterior of both operands
eq(self, other) ==
    LET a == exterior(self)
        b == exterior(other)
    IN  [self |-> a.obj, other |-> b.obj,
         ret |-> other.gem_type = self.gem_type /\ a.ret = b.ret]


(***************************************************************************)
(* Construction.  misc.inspect_args resolves the arguments of a decorated  *)
(* __init__: aliases is the ordered list of <<full name, argument>> pairs, *)
(* defaults[i] is None for an argument without a default.                  *)
(***************************************************************************)
RECURSIVE alias_pass(_, _)
alias_pass(aliases, kwargs) ==
    IF aliases = <<>> THEN kwargs
    ELSE LET name == aliases[1][1]
             abbr == aliases[1][2]
         IN  alias_pass(Tail(aliases),
                        IF abbr \notin DOMAIN kwargs /\ name \in DOMAIN kwargs
                        THEN kwargs @@ (abbr :> kwargs[name]) ELSE kwargs)

inspect_args(arg_names, defaults, aliases, args, kwargs) ==
    LET kw == alias_pass(aliases, kwargs)
        missing(i) == arg_names[i] \notin DOMAIN kw /\ Len(args) < i /\ defaults[i] = None
        value(i) == IF arg_names[i] \in DOMAIN kw THEN kw[arg_names[i]]
                    ELSE IF Len(args) >= i THEN args[i]
                    ELSE defaults[i][1]
    IN  IF \E i \in DOMAIN arg_names : missing(i) THEN [exc |-> TRUE, kw |-> <<>>]
        ELSE [exc |-> FALSE,
              kw |-> [a \in {arg_names[i] : i \in DOMAIN arg_names} |->
                        value(CHOOSE i \in DOMAIN arg_names : arg_names[i] = a)]]

isNumber(n) == n.t = "num"

isNumberArray(a) == a.t = "tuple"

isPoint(p) == p.t = "tuple" /\ Len(p.v) \in 2..3

SizeAliases == <<<<"size", "s">>, <<"height", "h">>, <<"width", "w">>, <<"num_dot", "n">>>>

\* a / b for integers: the quotient when it is an integer, the fraction otherwise
Div(a, b) ==
    LET n == IF b < 0 THEN -a ELSE a
        d == IF b < 0 THEN -b ELSE b
    IN  IF n % d = 0 THEN n \div d ELSE [num |-> n, den |-> d]

\* int(a / b): rounding towards zero
int(a, b) ==
    LET n == IF b < 0 THEN -a ELSE a
        d == IF b < 0 THEN -b ELSE b
    IN  IF n >= 0 THEN n \div d ELSE -((-n) \div d)

\* np.linspace(-w/2, w/2, k)[j] for j = 0..k-1, k >= 2
linspace(w, k, j) == Div(2 * j * w - w * (k - 1), 2 * (k - 1))

\* PointSet2D.__init__; _base_coords returns self.points
PointSet2D_init(gem_type, attrs, points, planar, n) ==
    IF ~IsPointRows(points) THEN NotBuilt
    ELSE Geometry2D_init(gem_type, attrs @@ ("points" :> points), planar,
                         [exc |-> FALSE, rows |-> points], n)

\* np.array([]) has one axis only
PointSet2D(points, planar, n) ==
    IF points = <<>> THEN NotBuilt
    ELSE PointSet2D_init("PointSet2D", <<>>, points, planar, n)

Point2D(args, kwargs, n) ==
    LET k == inspect_args(<<"px", "py">>, <<None, None>>, <<>>, args, kwargs)
    IN  IF k.exc THEN NotBuilt
        ELSE PointSet2D_init("Point2D", ("px" :> k.kw.px.n) @@ ("py" :> k.kw.py.n),
                             <<<<k.kw.px.n, k.kw.py.n>>>>, FALSE, n)

\* the height and width the size arguments s, h, w give; exc when s is no pair.
\* A single number s other than -1 goes through map(int, [s]*2).
SizeOf(s, h, w) ==
    IF isNumberArray(s)
    THEN IF Len(s.v) # 2 THEN [exc |-> TRUE, h |-> 0, w |-> 0]
         ELSE [exc |-> FALSE, h |-> s.v[1], w |-> s.v[2]]
    ELSE IF isNumber(s) /\ ~(s.n = -1 /\ s.d = 1)
    THEN [exc |-> FALSE, h |-> int(s.n, s.d), w |-> int(s.n, s.d)]
    ELSE [exc |-> FALSE, h |-> h.n, w |-> w.n]

\* rand is the outcome of np.random.rand(nD, 2) scaled by (w, h)
Pointcloud2D(args, kwargs, rand, n) ==
    LET k == inspect_args(<<"s", "h", "w", "n">>,
                          <<Some(PyNum(-1)), Some(PyNum(-1)), Some(PyNum(-1)), Some(PyNum(16))>>,
                          SizeAliases, args, kwargs)
        size == SizeOf(k.kw.s, k.kw.h, k.kw.w)
    IN  IF k.exc \/ size.exc \/ k.kw.n.n < 0 THEN NotBuilt
        ELSE PointSet2D_init("Pointcloud2D",
                             ("h" :> size.h) @@ ("w" :> size.w) @@ ("nD" :> k.kw.n.n),
                             rand, FALSE, n)

Grid(args, kwargs, n) ==
    LET k == inspect_args(<<"s", "h", "w", "n">>,
                          <<Some(PyNum(-1)), Some(PyNum(-1)), Some(PyNum(-1)), Some(PyNum(16))>>,
                          SizeAliases, args, kwargs)
        size == SizeOf(k.kw.s, k.kw.h, k.kw.w)
        nr == IF isNumber(k.kw.n) THEN k.kw.n.n ELSE k.kw.n.v[1]
        nc == IF isNumber(k.kw.n) THEN k.kw.n.n ELSE k.kw.n.v[2]
        points == [i \in 1..(nr * nc) |->
                     <<linspace(size.w, nc, (i - 1) % nc), linspace(size.h, nr, (i - 1) \div nc)>>]
    IN  IF k.exc \/ size.exc THEN NotBuilt
        ELSE IF ~isNumber(k.kw.n) /\ Len(k.kw.n.v) # 2 THEN NotBuilt
        ELSE IF nr < 2 \/ nc < 2 THEN NotBuilt
        ELSE PointSet2D_init("Grid",
                             ("h" :> size.h) @@ ("w" :> size.w) @@ ("nr" :> nr) @@ ("nc" :> nc),
                             points, FALSE, n)

\* Polygon2D.__init__; _base_coords returns self.v
Polygon2D_init(gem_type, attrs, vertices, n) ==
    Geometry2D_init(gem_type, attrs @@ ("v" :> vertices), TRUE,
                    [exc |-> FALSE, rows |-> vertices], n)

Polygon2D(vertices, n) == Polygon2D_init("Polygon2D", <<>>, vertices, n)


\* cos and sin of v/nV of a full turn, for the turns that are quarter turns
cos_turn(v, nV) == CASE (4 * v) % nV = 0 -> <<1, 0, -1, 0>>[(((4 * v) \div nV) % 4) + 1]

sin_turn(v, nV) == CASE (4 * v) % nV = 0 -> <<0, 1, 0, -1>>[(((4 * v) \div nV) % 4) + 1]

\* a coordinate that is no integer is kept as the expression that defines it
Coord(fn, axis, of) == [fn |-> fn, axis |-> axis, of |-> of]

\* calc.coords.rotate_2D of one point about the origin, anti-clockwise
rotate_2D(x, y, v, nV) ==
    <<x * cos_turn(v, nV) - y * sin_turn(v, nV), x * sin_turn(v, nV) + y * cos_turn(v, nV)>>

\* RegularPolygon._draw_edge; tan(pi/4) = 1.  The edge is computed when its
\* coordinates are integers and kept as an expression otherwise
_draw_edge(uS, nV, nD, v, e) ==
    IF nV = 4 /\ uS % (2 * (nD - 1)) = 0
    THEN rotate_2D(Div(2 * uS * e - uS * (nD - 1), 2 * (nD - 1)), Div(-uS, 2), v, nV)
    ELSE <<Coord("_draw_edge", "x", <<uS, nV, nD, v, e>>),
           Coord("_draw_edge", "y", <<uS, nV, nD, v, e>>)>>

PolygonAliases == <<<<"size", "s">>, <<"num_vertex", "v">>, <<"num_dot", "n">>>>

RegularPolygon_anyVertexCount(args, kwargs, n) ==
    LET k == inspect_args(<<"s", "v", "n">>, <<None, None, Some(PyNum(8))>>,
                          PolygonAliases, args, kwargs)
        uS == k.kw.s.n
        nV == k.kw.v.n
        nD == k.kw.n.n
        coord == [i \in 1..(nV * (nD - 1)) |->
                    _draw_edge(uS, nV, nD, (i - 1) \div (nD - 1), ((i - 1) % (nD - 1)) + 1)]
    IN  IF k.exc THEN NotBuilt
        ELSE IF nD < 2 THEN NotBuilt
        ELSE Polygon2D_init("RegularPolygon", ("uS" :> uS) @@ ("nV" :> nV) @@ ("nD" :> nD),
                            coord, n)

RegularPolygon(args, kwargs, n) ==
    LET k == inspect_args(<<"s", "v", "n">>, <<None, None, Some(PyNum(8))>>,
                          PolygonAliases, args, kwargs)
        uS == k.kw.s.n
        nV == k.kw.v.n
        nD == k.kw.n.n
        coord == [i \in 1..(nV * (nD - 1)) |->
                    _draw_edge(uS, nV, nD, (i - 1) \div (nD - 1), ((i - 1) % (nD - 1)) + 1)]
    IN  IF k.exc THEN NotBuilt
        ELSE IF nV < 3 THEN NotBuilt
        ELSE IF nD < 2 THEN NotBuilt
        ELSE Polygon2D_init("RegularPolygon", ("uS" :> uS) @@ ("nV" :> nV) @@ ("nD" :> nD),
                            coord, n)

SegmentAliases ==
    <<<<"size", "arg1">>, <<"s", "arg1">>, <<"p1", "arg1">>,
      <<"slope", "arg2">>, <<"p2", "arg2">>, <<"num_dot", "n">>>>

NaN == "nan"

\* Segment._base_coords: np.zeros((nD, 2)) raises for nD < 0, nD = 1 divides 0 by 0
Segment_base_coords(attrs) ==
    LET nD == attrs.nD
        along(a, b, d) == IF nD = 1 THEN NaN ELSE Div(d * b + (nD - d - 1) * a, nD - 1)
        length(d) == IF nD = 1 THEN NaN
                     ELSE Div(2 * attrs.uS * d - attrs.uS * (nD - 1), 2 * (nD - 1))
        scaled(x, c) == IF nD = 1 THEN NaN ELSE x * c
    IN  IF nD < 0 THEN [exc |-> TRUE, rows |-> <<>>]
        ELSE IF attrs.line_type = 0
        THEN [exc |-> FALSE,
              rows |-> [i \in 1..nD |-> <<scaled(length(i - 1), cos(attrs.aG)),
                                          scaled(length(i - 1), sin(attrs.aG))>>]]
        ELSE [exc |-> FALSE,
              rows |-> [i \in 1..nD |-> <<along(attrs.p1[1], attrs.p2[1], i - 1),
                                          along(attrs.p1[2], attrs.p2[2], i - 1)>>]]

Segment(args, kwargs, n) ==
    LET k == inspect_args(<<"arg1", "arg2", "n">>, <<None, None, Some(PyNum(16))>>,
                          SegmentAliases, args, kwargs)
        arg1 == k.kw.arg1
        arg2 == k.kw.arg2
        byLength == ("nD" :> k.kw.n.n) @@ ("line_type" :> 0) @@ ("uS" :> arg1.n) @@ ("aG" :> arg2.n)
        byPoints == ("nD" :> k.kw.n.n) @@ ("line_type" :> 1) @@ ("p1" :> arg1.v) @@ ("p2" :> arg2.v)
    IN  IF k.exc THEN NotBuilt
        ELSE IF isNumber(arg1) /\ isNumber(arg2)
        THEN Geometry2D_init("Segment", byLength, FALSE, Segment_base_coords(byLength), n)
        ELSE IF isPoint(arg1) /\ isPoint(arg2)
        THEN Geometry2D_init("Segment", byPoints, FALSE, Segment_base_coords(byPoints), n)
        ELSE NotBuilt

\* e[:-1] of a geometry: its rows but the last
ButLast(rows) == SubSeq(rows, 1, Len(rows) - 1)

\* calc.geometry.connect_edges
RECURSIVE connect_edges(_)
connect_edges(edges) ==
    IF edges = <<>> THEN <<>>
    ELSE ButLast(Head(edges)._points) \o connect_edges(Tail(edges))

Rectangle(args, kwargs, n) ==
    LET k == inspect_args(<<"s", "h", "w", "n">>,
                          <<Some(PyNum(-1)), Some(PyNum(-1)), Some(PyNum(-1)), Some(PyNum(32))>>,
                          SizeAliases, args, kwargs)
        size == SizeOf(k.kw.s, k.kw.h, k.kw.w)
        h == size.h
        w == size.w
        _s == 2 * w + 2 * h
        _nD == k.kw.n.n + 4
        nD_tb == int(_nD * w, _s)
        nD_lr == int(_nD * h, _s)
        nD == IF isNumber(k.kw.n) THEN <<nD_tb, nD_lr, nD_tb, _nD - 2 * nD_tb - nD_lr>>
              ELSE k.kw.n.v
        side(i, p1, p2) ==
            Segment(<<>>, ("num_dot" :> PyNum(nD[i])) @@ ("p1" :> PyTuple(p1)) @@ ("p2" :> PyTuple(p2)), n)
        top == side(1, <<Div(-w, 2), Div(h, 2)>>, <<Div(w, 2), Div(h, 2)>>)
        right == side(2, <<Div(w, 2), Div(h, 2)>>, <<Div(w, 2), Div(-h, 2)>>)
        bottom == side(3, <<Div(w, 2), Div(-h, 2)>>, <<Div(-w, 2), Div(-h, 2)>>)
        left == side(4, <<Div(-w, 2), Div(-h, 2)>>, <<Div(-w, 2), Div(h, 2)>>)
    IN  IF k.exc \/ size.exc THEN NotBuilt
        ELSE IF isNumber(k.kw.n) /\ _s = 0 THEN NotBuilt
        ELSE IF Len(nD) # 4 THEN NotBuilt
        ELSE IF \E i \in 1..4 : nD[i] < 2 THEN NotBuilt
        ELSE IF top.exc \/ right.exc \/ bottom.exc \/ left.exc THEN NotBuilt
        ELSE Polygon2D_init("Rectangle", ("h" :> h) @@ ("w" :> w) @@ ("nD" :> nD),
                            connect_edges(<<top.obj, right.obj, bottom.obj, left.obj>>), n)

TrapezoidAliases == <<<<"size", "s">>, <<"num_dot", "n">>>>

\* math.sqrt, for the perfect squares the size catalogue leads to
sqrt(x) == CHOOSE r \in 0..x : r * r = x

\* |a|
abs(a) == IF a < 0 THEN -a ELSE a

\* Trapezoid.__init__.  `raise("...")` raises TypeError; a zero divisor raises
\* ZeroDivisionError; sqrt of a negative number raises ValueError.  The sides
\* are kept in self.s, an attribute Geometry2D.__init__ does not look at.
Trapezoid(args, kwargs, n) ==
    LET k == inspect_args(<<"s", "n">>, <<None, Some(PyNum(32))>>, TrapezoidAliases, args, kwargs)
        s == k.kw.s.v
        l_v == sqrt((s[3] - s[2]) * (s[3] - s[2]) + 4 * s[1] * s[1]) \div 2
        sides == IF Len(s) = 2 THEN <<s[2], s[1], s[2], s[1]>>
                 ELSE IF Len(s) = 3 THEN <<s[2], l_v, s[3], l_v>>
                 ELSE s
        _s == sides[1] + sides[2] + sides[3] + sides[4]
        _nD == k.kw.n.n + 4
        nD_t == int(_nD * sides[1], _s)
        nD_r == int(_nD * sides[2], _s)
        nD_b == int(_nD * sides[3], _s)
        nD == IF isNumber(k.kw.n) THEN <<nD_t, nD_r, nD_b, _nD - (nD_t + nD_r + nD_b)>>
              ELSE k.kw.n.v
        l == sides[2] * sides[2] - sides[4] * sides[4] + sides[3] * sides[3] - sides[1] * sides[1]
        x == abs(l) \div abs(2 * (sides[1] + sides[3]))
        y == sqrt(sides[2] * sides[2] - x * x)
        side(i, p1, p2) ==
            Segment(<<>>, ("num_dot" :> PyNum(nD[i])) @@ ("p1" :> PyTuple(p1)) @@ ("p2" :> PyTuple(p2)), n)
        top == side(1, <<-sides[1], 0>>, <<0, 0>>)
        right == side(2, <<0, 0>>, <<x, -y>>)
        bottom == side(3, <<x, -y>>, <<x - sides[3], -y>>)
        left == side(4, <<x - sides[3], -y>>, <<-sides[1], 0>>)
        edges == connect_edges(<<top.obj, right.obj, bottom.obj, left.obj>>)
        corners == \A i \in 1..4 : nD[i] = 2
        coord == [i \in DOMAIN edges |->
                    IF corners
                    THEN <<Div(4 * edges[i][1] - (2 * x - sides[1] - sides[3]), 4),
                           Div(2 * edges[i][2] + y, 2)>>
                    ELSE <<Coord("Trapezoid", "x", <<sides, nD, i>>),
                           Coord("Trapezoid", "y", <<sides, nD, i>>)>>]
    IN  IF k.exc THEN NotBuilt
        ELSE IF ~isNumberArray(k.kw.s) \/ Len(s) < 2 \/ Len(s) > 4 THEN NotBuilt
        ELSE IF \/ abs(sides[2] - sides[4]) > abs(sides[1] - sides[3])
                \/ abs(sides[1] - sides[3]) >= sides[2] + sides[4] THEN NotBuilt
        ELSE IF isNumber(k.kw.n) /\ _s = 0 THEN NotBuilt
        ELSE IF Len(nD) # 4 THEN NotBuilt
        ELSE IF \E i \in 1..4 : nD[i] < 2 THEN NotBuilt
        ELSE IF sides[1] + sides[3] = 0 THEN NotBuilt
        ELSE IF sides[2] * sides[2] - x * x < 0 THEN NotBuilt
        ELSE IF top.exc \/ right.exc \/ bottom.exc \/ left.exc THEN NotBuilt
        ELSE Polygon2D_init("Trapezoid", ("s" :> sides) @@ ("nD" :> nD), coord, n)

StarAliases == PolygonAliases

\* the two Segments of each spike get point end-points and nD >= 2 dots, which
\* Segment accepts; their coordinates are not integers
ConcaveStar(args, kwargs, n) ==
    LET k == inspect_args(<<"s", "v", "n">>, <<None, Some(PyNum(5)), Some(PyNum(8))>>,
                          StarAliases, args, kwargs)
        uS == k.kw.s.n
        nV == k.kw.v.n
        nD == k.kw.n.n
        coord == [i \in 1..(nV * (2 * nD - 2)) |->
                    <<Coord("ConcaveStar", "x", <<uS, nV, nD, i>>),
                      Coord("ConcaveStar", "y", <<uS, nV, nD, i>>)>>]
    IN  IF k.exc THEN NotBuilt
        ELSE IF nV < 3 THEN NotBuilt
        ELSE IF nD < 2 THEN NotBuilt
        ELSE Polygon2D_init("ConcaveStar", ("uS" :> uS) @@ ("nV" :> nV) @@ ("nD" :> nD),
                            coord, n)


(***************************************************************************)
(* The body of a transform method of Geometry2D calls the transform2D      *)
(* function of the same name on self._points and binds the result.  The    *)
(* outcome is [exc, rows]; the decorator `transform` applies it.           *)
(***************************************************************************)
OnPoints(self) == [i \in ArrIds |-> IF i = 1 THEN Arr2(self._points) ELSE NoArr]

Outcome(r) == [exc |-> r.exc, rows |-> IF r.exc THEN <<>> ELSE r.mem[r.ret].v]

Raised == [exc |-> TRUE, rows |-> <<>>]

\* Geometry2D.copy: copy.deepcopy builds a new object with equal attributes
copy_sameObject(objects, self) == [heap |-> objects, ret |-> self]

copy(objects, self) == [heap |-> Append(objects, objects[self]), ret |-> Len(objects) + 1]


(***************************************************************************)
(* Calls of the transform functions by a caller that keeps every array it  *)
(* passed or got back: coords[1] is its own array, each call is applied to *)
(* the array returned last.  Arrays nobody holds any more are freed.       *)
(***************************************************************************)
InputPoints == {<<0, 0>>, <<1, 0>>, <<1, 2>>, <<-1, 1>>}

RECURSIVE SeqsUpTo(_, _)
SeqsUpTo(S, n) ==
    IF n = 0 THEN {<<>>}
    ELSE LET shorter == SeqsUpTo(S, n - 1)
         IN  shorter \cup {Append(q, x) : q \in shorter, x \in S}

InputArrays ==
    {Arr2(rows) : rows \in SeqsUpTo(InputPoints, MaxLen) \ {<<>>}}
        \cup {Arr1(<<1, 2>>), Arr1(<<1, 2, 3>>), Arr2(<<<<1, 2, 3>>>>)}

\* the (positional, keyword) ways of passing one value to an aliased argument
ArgForms(name, val) ==
    {<<Some(val), NoKw>>, <<None, Kw(name, val)>>, <<None, NoKw>>, <<Some(val), Kw(name, val)>>}

Matrices ==
    {[shape |-> <<2, 2>>, v |-> <<<<0, 1>>, <<1, 0>>>>],
     [shape |-> <<2, 2>>, v |-> <<<<2, 0>>, <<1, 1>>>>],
     [shape |-> <<1, 2>>, v |-> <<<<1, 0>>>>]}

DistortArgs ==
    {<<"barrel", 0>>, <<"pincushion", 0>>, <<"pincushion", 1>>, <<"fisheye", 0>>}

Pivots == {<<1, 0>>}

Held == {coords[i] : i \in DOMAIN coords}

Arg == coords[Len(coords)]

\* the rows of a valid argument, <<>> for one to_ndarray rejects
RowsOf(a) ==
    IF a.nd = 1 THEN (IF Len(a.v) = 2 THEN <<a.v>> ELSE <<>>)
    ELSE IF Len(a.v) > 0 /\ Len(a.v[1]) = 2 THEN a.v ELSE <<>>

\* np.max(r) > 0 around the centre (ncx, ncy)/n: otherwise r/R is 0/0
RadiusDefined(a, p) ==
    RowsOf(a) = <<>> \/ ~MaxRadiusIsZero(RowsOf(a), 1, p[1], p[2])

MeanRadiusDefined(a) ==
    RowsOf(a) = <<>>
        \/ ~MaxRadiusIsZero(RowsOf(a), Len(RowsOf(a)), SumCol(RowsOf(a), 1), SumCol(RowsOf(a), 2))

GeometryIdle == UNCHANGED <<heap, ref, gems, last, calls, ctor>>

Returned(name, r) ==
    /\ exc' = IF r.exc THEN name ELSE ""
    /\ coords' = IF r.exc THEN coords ELSE Append(coords, r.ret)
    /\ mem' = [i \in ArrIds |-> IF i \in Held \/ (~r.exc /\ i = r.ret) THEN r.mem[i] ELSE NoArr]
    /\ GeometryIdle

Plain ==
    /\ Len(coords) <= MaxChain
    /\ UNCHANGED hist

Noted(name) ==
    /\ Len(coords) <= MaxFlips
    /\ hist' = IF exc' = "" THEN Append(hist, name) ELSE hist

call_scale == \E sy \in {None, Some(-1)} : Returned("scale", scale(mem, Arg, 2, sy))

call_scaleX == \E a \in ArgForms("scale", 2) : Returned("scaleX", scaleX(mem, Arg, a[1], a[2]))

call_scaleY == \E a \in ArgForms("scale", 2) : Returned("scaleY", scaleY(mem, Arg, a[1], a[2]))

call_translate == Returned("translate", translate(mem, Arg, 1, -1))

call_translateX == Returned("translateX", translateX(mem, Arg, 1))

call_translateY == Returned("translateY", translateY(mem, Arg, -1))

call_rotate ==
    \E w \in Angles : \E a \in ArgForms("angle", w) :
        Returned("rotate", rotate(mem, Arg, a[1], a[2]))

call_rotateX ==
    \E w \in Angles : \E a \in ArgForms("angle", w) :
        Returned("rotateX", rotateX(mem, Arg, a[1], a[2]))

call_rotateY ==
    \E w \in Angles : \E a \in ArgForms("angle", w) :
        Returned("rotateY", rotateY(mem, Arg, a[1], a[2]))

call_rotateZ ==
    \E w \in Angles : \E a \in ArgForms("angle", w) :
        Returned("rotateZ", rotateZ(mem, Arg, a[1], a[2]))

call_rotate3D ==
    \E w \in Angles : \E a1 \in {None, Some(w)} :
        Returned("rotate3D", rotate3D(mem, Arg, a1, Some(w), None, Kw("roll", w)))

call_skew ==
    \E w \in Angles : \E a, ax, ay \in {None, Some(w)} :
        Returned("skew", skew(mem, Arg, a, ax, ay, NoKw))

call_skewX ==
    \E w \in Angles : \E a \in ArgForms("angle", w) :
        Returned("skewX", skewX(mem, Arg, a[1], a[2]))

call_skewY ==
    \E w \in Angles : \E a \in ArgForms("angle", w) :
        Returned("skewY", skewY(mem, Arg, a[1], a[2]))

call_reflect == \E p \in Pivots : Returned("reflect", reflect(mem, Arg, p))

call_reflectX == Returned("reflectX", reflectX(mem, Arg))

call_reflectY == Returned("reflectY", reflectY(mem, Arg))

call_reflectXY == Returned("reflectXY", reflectXY(mem, Arg))

call_reflectDiagonal == Returned("reflectDiagonal", reflectDiagonal(mem, Arg))

call_flip == \E p \in Pivots : Returned("flip", flip(mem, Arg, p))

call_flipX == Returned("flipX", flipX(mem, Arg))

call_flipY == Returned("flipY", flipY(mem, Arg))

call_flipXY == Returned("flipXY", flipXY(mem, Arg))

call_flipDiagonal == Returned("flipDiagonal", flipDiagonal(mem, Arg))

call_dot == \E mat \in Matrices : Returned("dot", dot(mem, Arg, mat))

call_distort ==
    \E a \in DistortArgs :
        /\ a \in {<<"pincushion", 1>>, <<"fisheye", 0>>} \/ MeanRadiusDefined(mem[Arg])
        /\ Returned("distort", distort(mem, Arg, a[1], a[2]))

call_focus ==
    \E p \in Pivots :
        /\ RadiusDefined(mem[Arg], p)
        /\ Returned("focus", focus(mem, Arg, p, 0))

call_shatter ==
    \E p \in Pivots :
        /\ RadiusDefined(mem[Arg], p)
        /\ Returned("shatter", shatter(mem, Arg, p, 0))

InitGeometryIdle ==
    /\ heap = <<>>
    /\ ref = <<>>
    /\ gems = <<>>
    /\ last = <<>>
    /\ calls = 0
    /\ ctor = <<>>

InitT ==
    /\ \E a \in InputArrays : mem = [i \in ArrIds |-> IF i = 1 THEN a ELSE NoArr]
    /\ coords = <<1>>
    /\ hist = <<>>
    /\ exc = ""
    /\ InitGeometryIdle

NextT ==
    \/ call_scale /\ Plain
    \/ call_scaleX /\ Plain
    \/ call_scaleY /\ Plain
    \/ call_translate /\ Plain
    \/ call_translateX /\ Plain
    \/ call_translateY /\ Plain
    \/ call_rotate /\ Plain
    \/ call_rotateX /\ Plain
    \/ call_rotateY /\ Plain
    \/ call_rotateZ /\ Plain
    \/ call_rotate3D /\ Plain
    \/ call_skew /\ Plain
    \/ call_skewX /\ Plain
    \/ call_skewY /\ Plain
    \/ call_reflect /\ Plain
    \/ call_reflectX /\ Plain
    \/ call_reflectY /\ Plain
    \/ call_reflectXY /\ Plain
    \/ call_reflectDiagonal /\ Plain
    \/ call_flip /\ Plain
    \/ call_flipX /\ Plain
    \/ call_flipY /\ Plain
    \/ call_flipXY /\ Plain
    \/ call_flipDiagonal /\ Plain
    \/ call_dot /\ Plain
    \/ call_distort /\ Plain
    \/ call_focus /\ Plain
    \/ call_shatter /\ Plain

SpecT == InitT /\ [][NextT]_vars

(***************************************************************************)
(* The flip and reflect family, with the names of the calls that returned. *)
(***************************************************************************)
NextFlip ==
    \/ call_flip /\ Noted("flip")
    \/ call_flipX /\ Noted("flipX")
    \/ call_flipY /\ Noted("flipY")
    \/ call_flipXY /\ Noted("flipXY")
    \/ call_flipDiagonal /\ Noted("flipDiagonal")
    \/ call_reflect /\ Noted("reflect")
    \/ call_reflectX /\ Noted("reflectX")
    \/ call_reflectY /\ Noted("reflectY")
    \/ call_reflectXY /\ Noted("reflectXY")
    \/ call_reflectDiagonal /\ Noted("reflectDiagonal")

SpecFlip == InitT /\ [][NextFlip]_vars

\* the array call number i was given, and the one it returned
Given(i) == RowsOf(mem[coords[i]])

Got(i) == mem[coords[i + 1]].v

Contains(rows, q) == \E j \in DOMAIN rows : rows[j] = q

Involutions == {"flipX", "flipY", "flipXY", "flipDiagonal"}

C7_DoubleFlipIsIdentity ==
    \A i \in 1..(Len(hist) - 1) :
        hist[i] \in Involutions /\ hist[i + 1] = hist[i] =>
            /\ mem[coords[i + 2]].nd = 2
            /\ Got(i + 1) = Given(i)

C7_Witness ==
    /\ Len(hist) = 2
    /\ hist[1] = "flipDiagonal"
    /\ hist[2] = "flipDiagonal"
    /\ Len(Given(1)) = MaxLen
    /\ Got(1) # Given(1)

(***************************************************************************)
(* C8 as stated: for every P, repeated points and points on the axis       *)
(* included, reflectX(P) has at least len(P) rows and contains every point *)
(* of P and every mirrored point, and flipX(P) has exactly len(P) rows.    *)
(***************************************************************************)
C8_ReflectAtLeastAsLong ==
    \A i \in 1..Len(hist) :
        /\ hist[i] = "reflectX" =>
            /\ Len(Got(i)) >= Len(Given(i))
            /\ \A j \in DOMAIN Given(i) :
                /\ Contains(Got(i), Given(i)[j])
                /\ Contains(Got(i), <<Given(i)[j][1], -Given(i)[j][2]>>)
        /\ hist[i] = "flipX" => Len(Got(i)) = Len(Given(i))

(***************************************************************************)
(* C8 amended: reflectX(P) contains every point of P and every mirrored    *)
(* point and has at least as many rows as P has distinct points (at least  *)
(* len(P) when no point of P is repeated); flipX(P) has exactly len(P)     *)
(* rows.                                                                   *)
(***************************************************************************)
C8_ReflectCoversDistinct ==
    \A i \in 1..Len(hist) :
        /\ hist[i] = "reflectX" =>
            /\ Len(Got(i)) >= Cardinality(RowSet(Given(i)))
            /\ \A j \in DOMAIN Given(i) :
                /\ Contains(Got(i), Given(i)[j])
                /\ Contains(Got(i), <<Given(i)[j][1], -Given(i)[j][2]>>)
        /\ hist[i] = "flipX" => Len(Got(i)) = Len(Given(i))

C8_Witness ==
    /\ Len(hist) = 2
    /\ hist[1] = "reflectX"
    /\ hist[2] = "flipX"
    /\ Len(Given(1)) = 2
    /\ Len(Got(1)) = 3

(***************************************************************************)
(* A caller with two variables, ori and f, as in test/d2/test_gem2D.py:    *)
(* ori is built first, f = ori.copy() later, transform methods and reads   *)
(* are called on either.                                                   *)
(***************************************************************************)
Handles == {"ori", "f"}

Self(h) == heap[ref[h]]

Pos(a) == IF a = None THEN <<>> ELSE <<PyNum(a[1])>>

SizeAndDots(s, n) == ("size" :> PyNum(s)) @@ ("num_dot" :> PyNum(n))

\* the shapes the caller builds, as construction number n
Shapes(n) ==
    {Point2D(<<PyNum(1), PyNum(2)>>, NoKw, n),
     Grid(<<>>, SizeAndDots(2, 2), n),
     PointSet2D(<<<<0, 0>>, <<2, 0>>, <<0, 2>>>>, TRUE, n),
     RegularPolygon(<<>>, SizeAndDots(2, 2) @@ ("num_vertex" :> PyNum(4)), n)}
        \cup {Pointcloud2D(<<>>, SizeAndDots(2, 1), <<rand>>, n) : rand \in {<<0, 1>>, <<1, 1>>}}

TransformIdle == UNCHANGED <<mem, coords, hist, exc>>

Called(op, name, h, raised) == last' = [op |-> op, h |-> h, raised |-> raised]

Method(h, name, args, kwargs, body) ==
    /\ ref[h] # 0
    /\ LET t == transform(Self(h), args, kwargs, body)
       IN  /\ heap' = [heap EXCEPT ![ref[h]] = t.obj]
           /\ Called("transform", name, h, t.exc)
    /\ calls' = calls + 1
    /\ UNCHANGED <<ref, gems, ctor>>
    /\ TransformIdle

\* the body of a method that takes one argument, by position or by keyword,
\* has it resolved by assignArg: got is assignArg's outcome
gem_scale ==
    \E h \in Handles, sy \in {None, Some(-1)} :
        Method(h, "scale", <<PyNum(2)>> \o Pos(sy), NoKw,
               Outcome(scale(OnPoints(Self(h)), 1, 2, sy)))

gem_scaleX ==
    \E h \in Handles, a \in ArgForms("scale", 2) :
        LET got == assignArg(<<a[1]>>, <<"scale">>, a[2])
        IN  Method(h, "scaleX", Pos(a[1]), a[2],
                   IF got.exc THEN Raised
                   ELSE Outcome(scaleX(OnPoints(Self(h)), 1, Some(got.v[1]), NoKw)))

gem_scaleY ==
    \E h \in Handles, a \in {<<Some(2), NoKw>>, <<None, Kw("scale", 2)>>} :
        LET got == assignArg(<<a[1]>>, <<"scale">>, a[2])
        IN  Method(h, "scaleY", Pos(a[1]), a[2],
                   IF got.exc THEN Raised
                   ELSE Outcome(scaleY(OnPoints(Self(h)), 1, Some(got.v[1]), NoKw)))

gem_translate ==
    \E h \in Handles :
        Method(h, "translate", <<PyNum(1), PyNum(-1)>>, NoKw,
               Outcome(translate(OnPoints(Self(h)), 1, 1, -1)))

gem_translateX ==
    \E h \in Handles :
        Method(h, "translateX", <<PyNum(1)>>, NoKw, Outcome(translateX(OnPoints(Self(h)), 1, 1)))

gem_translateY ==
    \E h \in Handles :
        Method(h, "translateY", <<PyNum(-1)>>, NoKw, Outcome(translateY(OnPoints(Self(h)), 1, -1)))

gem_rotate ==
    \E h \in Handles, w \in Angles : \E a \in ArgForms("angle", w) :
        LET got == assignArg(<<a[1]>>, <<"angle">>, a[2])
        IN  Method(h, "rotate", Pos(a[1]), a[2],
                   IF got.exc THEN Raised
                   ELSE Outcome(rotate(OnPoints(Self(h)), 1, Some(got.v[1]), NoKw)))

gem_rotateX ==
    \E h \in Handles, w \in Angles :
        LET got == assignArg(<<Some(w)>>, <<"angle">>, NoKw)
        IN  Method(h, "rotateX", <<PyNum(w)>>, NoKw,
                   IF got.exc THEN Raised
                   ELSE Outcome(rotateX(OnPoints(Self(h)), 1, Some(got.v[1]), NoKw)))

gem_rotateY ==
    \E h \in Handles, w \in Angles :
        LET got == assignArg(<<None>>, <<"angle">>, Kw("angle", w))
        IN  Method(h, "rotateY", <<>>, Kw("angle", w),
                   IF got.exc THEN Raised
                   ELSE Outcome(rotateY(OnPoints(Self(h)), 1, Some(got.v[1]), NoKw)))

gem_rotateZ ==
    \E h \in Handles, w \in Angles :
        LET got == assignArg(<<Some(w)>>, <<"angle">>, NoKw)
        IN  Method(h, "rotateZ", <<PyNum(w)>>, NoKw,
                   IF got.exc THEN Raised
                   ELSE Outcome(rotateZ(OnPoints(Self(h)), 1, Some(got.v[1]), NoKw)))

\* g.rotate3D(w, w, roll=w) and g.rotate3D(roll=w)
gem_rotate3D ==
    \E h \in Handles, w \in Angles : \E a \in {None, Some(w)} :
        LET got == assignArg(<<a, a, None>>, <<"yaw", "pitch", "roll">>, Kw("roll", w))
        IN  Method(h, "rotate3D", Pos(a) \o Pos(a), Kw("roll", w),
                   IF got.exc THEN Raised
                   ELSE Outcome(rotate3D(OnPoints(Self(h)), 1, Some(got.v[1]), Some(got.v[2]),
                                         Some(got.v[3]), NoKw)))

\* g.skew(), g.skew(w), g.skew(ax=w) and g.skew(angle=w); rest is **kwargs
SkewCalls(w) ==
    {[a |-> None, ax |-> None, args |-> <<>>, kwargs |-> NoKw, rest |-> NoKw],
     [a |-> Some(w), ax |-> None, args |-> <<PyNum(w)>>, kwargs |-> NoKw, rest |-> NoKw],
     [a |-> None, ax |-> Some(w), args |-> <<>>, kwargs |-> Kw("ax", w), rest |-> NoKw],
     [a |-> None, ax |-> None, args |-> <<>>, kwargs |-> Kw("angle", w), rest |-> Kw("angle", w)]}

gem_skew ==
    \E h \in Handles, w \in Angles : \E c \in SkewCalls(w) :
        LET a1 == IF "angle" \in DOMAIN c.rest THEN Some(c.rest["angle"]) ELSE c.a
        IN  Method(h, "skew", c.args, c.kwargs,
                   Outcome(skew(OnPoints(Self(h)), 1, a1, c.ax, None, NoKw)))

gem_skewX ==
    \E h \in Handles, w \in Angles :
        LET got == assignArg(<<Some(w)>>, <<"angle">>, NoKw)
        IN  Method(h, "skewX", <<PyNum(w)>>, NoKw,
                   IF got.exc THEN Raised
                   ELSE Outcome(skewX(OnPoints(Self(h)), 1, Some(got.v[1]), NoKw)))

gem_skewY ==
    \E h \in Handles, w \in Angles :
        LET got == assignArg(<<None>>, <<"angle">>, Kw("angle", w))
        IN  Method(h, "skewY", <<>>, Kw("angle", w),
                   IF got.exc THEN Raised
                   ELSE Outcome(skewY(OnPoints(Self(h)), 1, Some(got.v[1]), NoKw)))

gem_reflect ==
    \E h \in Handles, p \in Pivots :
        Method(h, "reflect", <<PyTuple(p)>>, NoKw, Outcome(reflect(OnPoints(Self(h)), 1, p)))

gem_reflectX ==
    \E h \in Handles : Method(h, "reflectX", <<>>, NoKw, Outcome(reflectX(OnPoints(Self(h)), 1)))

gem_reflectY ==
    \E h \in Handles : Method(h, "reflectY", <<>>, NoKw, Outcome(reflectY(OnPoints(Self(h)), 1)))

gem_reflectXY ==
    \E h \in Handles : Method(h, "reflectXY", <<>>, NoKw, Outcome(reflectXY(OnPoints(Self(h)), 1)))

gem_reflectDiagonal ==
    \E h \in Handles :
        Method(h, "reflectDiagonal", <<>>, NoKw, Outcome(reflectDiagonal(OnPoints(Self(h)), 1)))

gem_flip ==
    \E h \in Handles, p \in Pivots :
        Method(h, "flip", <<PyTuple(p)>>, NoKw, Outcome(flip(OnPoints(Self(h)), 1, p)))

gem_flipX ==
    \E h \in Handles : Method(h, "flipX", <<>>, NoKw, Outcome(flipX(OnPoints(Self(h)), 1)))

gem_flipY ==
    \E h \in Handles : Method(h, "flipY", <<>>, NoKw, Outcome(flipY(OnPoints(Self(h)), 1)))

gem_flipXY ==
    \E h \in Handles : Method(h, "flipXY", <<>>, NoKw, Outcome(flipXY(OnPoints(Self(h)), 1)))

gem_flipDiagonal ==
    \E h \in Handles :
        Method(h, "flipDiagonal", <<>>, NoKw, Outcome(flipDiagonal(OnPoints(Self(h)), 1)))

MatrixArgs == {PyArray(<<2, 2>>, <<0, 1, 1, 0>>), PyArray(<<1, 2>>, <<1, 0>>)}

gem_dot ==
    \E h \in Handles, m \in MatrixArgs :
        Method(h, "dot", <<m>>, NoKw,
               Outcome(dot(OnPoints(Self(h)), 1, [shape |-> m.shape, v |-> RowsOfArray(m)])))

gem_distort ==
    \E h \in Handles, a \in {<<"barrel", 0>>, <<"pincushion", 1>>, <<"fisheye", 0>>} :
        /\ ref[h] # 0
        /\ a[1] # "barrel" \/ MeanRadiusDefined(Arr2(Self(h)._points))
        /\ Method(h, "distort", <<PyStr(a[1]), PyNum(a[2])>>, NoKw,
                  Outcome(distort(OnPoints(Self(h)), 1, a[1], a[2])))

gem_focus ==
    \E h \in Handles, p \in Pivots :
        /\ ref[h] # 0
        /\ RadiusDefined(Arr2(Self(h)._points), p)
        /\ Method(h, "focus", <<PyTuple(p), PyNum(0)>>, NoKw,
                  Outcome(focus(OnPoints(Self(h)), 1, p, 0)))

gem_shatter ==
    \E h \in Handles, p \in Pivots :
        /\ ref[h] # 0
        /\ RadiusDefined(Arr2(Self(h)._points), p)
        /\ Method(h, "shatter", <<PyTuple(p), PyNum(0)>>, NoKw,
                  Outcome(shatter(OnPoints(Self(h)), 1, p, 0)))

\* a call that is no transform: the object of h afterwards, whether it raised
Read(h, name, obj, raised) ==
    /\ heap' = [heap EXCEPT ![ref[h]] = obj]
    /\ Called("read", name, h, raised)
    /\ UNCHANGED <<ref, gems, calls, ctor>>
    /\ TransformIdle

gem_exterior ==
    \E h \in Handles :
        /\ ref[h] # 0
        /\ Read(h, "exterior", exterior(Self(h)).obj, FALSE)

Densities == {16, 8}

gem_interior ==
    \E h \in Handles, density \in Densities :
        /\ ref[h] # 0
        /\ Read(h, "interior", interior(Self(h), density).obj, interior(Self(h), density).exc)

\* Geometry2D.area computes the hull anew and stores nothing
gem_area ==
    \E h \in Handles :
        /\ ref[h] # 0
        /\ Read(h, "area", Self(h), FALSE)

\* ori == f
gem_eq ==
    /\ ref["ori"] # 0
    /\ ref["f"] # 0
    /\ heap' = [i \in DOMAIN heap |->
                  IF i = ref["f"] THEN eq(Self("ori"), Self("f")).other
                  ELSE IF i = ref["ori"] THEN eq(Self("ori"), Self("f")).self
                  ELSE heap[i]]
    /\ Called("read", "eq", "ori", FALSE)
    /\ UNCHANGED <<ref, gems, calls, ctor>>
    /\ TransformIdle

\* f = ori.copy()
gem_copy ==
    /\ ref["ori"] # 0
    /\ ref["f"] = 0
    /\ heap' = copy(heap, ref["ori"]).heap
    /\ ref' = [ref EXCEPT !["f"] = copy(heap, ref["ori"]).ret]
    /\ Called("copy", "copy", "f", FALSE)
    /\ UNCHANGED <<gems, calls, ctor>>
    /\ TransformIdle

Init ==
    /\ \E g \in Shapes(1) : ~g.exc /\ heap = <<g.obj>>
    /\ ref = [h \in Handles |-> IF h = "ori" THEN 1 ELSE 0]
    /\ gems = <<>>
    /\ last = [op |-> "construct", h |-> "ori", raised |-> FALSE]
    /\ calls = 0
    /\ ctor = <<>>
    /\ mem = [i \in ArrIds |-> NoArr]
    /\ coords = <<>>
    /\ hist = <<>>
    /\ exc = ""

Within == calls < MaxT

Next ==
    \/ Within /\ gem_scale
    \/ Within /\ gem_scaleX
    \/ Within /\ gem_scaleY
    \/ Within /\ gem_translate
    \/ Within /\ gem_translateX
    \/ Within /\ gem_translateY
    \/ Within /\ gem_rotate
    \/ Within /\ gem_rotateX
    \/ Within /\ gem_rotateY
    \/ Within /\ gem_rotateZ
    \/ Within /\ gem_rotate3D
    \/ Within /\ gem_skew
    \/ Within /\ gem_skewX
    \/ Within /\ gem_skewY
    \/ Within /\ gem_reflect
    \/ Within /\ gem_reflectX
    \/ Within /\ gem_reflectY
    \/ Within /\ gem_reflectXY
    \/ Within /\ gem_reflectDiagonal
    \/ Within /\ gem_flip
    \/ Within /\ gem_flipX
    \/ Within /\ gem_flipY
    \/ Within /\ gem_flipXY
    \/ Within /\ gem_flipDiagonal
    \/ Within /\ gem_dot
    \/ Within /\ gem_distort
    \/ Within /\ gem_focus
    \/ Within /\ gem_shatter
    \/ gem_exterior
    \/ gem_interior
    \/ gem_area
    \/ gem_eq
    \/ gem_copy

Spec == Init /\ [][Next]_vars

\* the step is a transform method call made through handle h
TransformOf(h) == calls' # calls /\ last'.h = h

(***************************************************************************)
(* C1: hash(g) is the same on repeated reads with no transform in between, *)
(* and after any transform method call on g it differs from its value      *)
(* before that call, for every concrete subclass.                          *)
(***************************************************************************)
C1_HashChangesWithEveryTransform ==
    [][\A h \in Handles : ref[h] # 0 =>
          IF \E k \in Handles : TransformOf(k) /\ ref[k] = ref[h]
          THEN hash(heap'[ref[h]]) # hash(heap[ref[h]])
          ELSE hash(heap'[ref[h]]) = hash(heap[ref[h]])]_vars

(***************************************************************************)
(* C3: a transform method call that raises leaves the geometry as it was:  *)
(* points, identity hash and cached exterior and interior are unchanged.   *)
(***************************************************************************)
C3_RaisingTransformChangesNothing ==
    [][\A h \in Handles : TransformOf(h) /\ last'.raised =>
          /\ heap'[ref[h]]._points = heap[ref[h]]._points
          /\ hash(heap'[ref[h]]) = hash(heap[ref[h]])
          /\ heap'[ref[h]]._exterior = heap[ref[h]]._exterior
          /\ heap'[ref[h]]._interior = heap[ref[h]]._interior]_vars

(***************************************************************************)
(* C4: in every reachable state a cached exterior that is present is the   *)
(* hull of the current points, and a cached interior that is present was   *)
(* computed from the current exterior.                                     *)
(***************************************************************************)
C4_CachesAreCurrent ==
    \A i \in DOMAIN heap :
        /\ heap[i]._exterior # None => heap[i]._exterior = Some(concave_hull(heap[i]._points))
        /\ heap[i]._interior # None =>
             /\ heap[i]._exterior # None
             /\ heap[i]._interior = interior_pixels(heap[i]._exterior, heap[i]._density).ret

\* the exterior of a polygon is cached after a transform has moved its points
C4_Witness ==
    /\ calls > 0
    /\ last.op = "read"
    /\ heap[ref[last.h]].gem_type = "RegularPolygon"
    /\ heap[ref[last.h]]._exterior # None
    /\ heap[ref[last.h]]._points # heap[ref[last.h]].attrs.v

(***************************************************************************)
(* C5: g.copy() returns a new geometry of the same type with equal points; *)
(* afterwards a transform of the copy leaves the original (points, hash,   *)
(* caches) unchanged and a transform of the original leaves the copy       *)
(* unchanged.                                                              *)
(***************************************************************************)
C5_CopyIsIndependent ==
    [][/\ ref'["f"] # ref["f"] =>
            /\ ref'["f"] \notin DOMAIN heap
            /\ heap'[ref'["f"]].gem_type = heap[ref["ori"]].gem_type
            /\ heap'[ref'["f"]]._points = heap[ref["ori"]]._points
            /\ heap'[ref["ori"]] = heap[ref["ori"]]
       /\ \A h, k \in Handles :
            TransformOf(h) /\ k # h /\ ref[k] # 0 => heap'[ref[k]] = heap[ref[k]]]_vars

C5_Witness ==
    /\ ref["f"] # 0
    /\ last.op = "transform"
    /\ last.h = "f"
    /\ heap[ref["f"]]._points # heap[ref["ori"]]._points
    /\ heap[ref["ori"]]._exterior # None

(***************************************************************************)
(* Canvas: the draw list self.gems holds one fig_config per added figure,  *)
(* whose 'fig' entry is a reference to the geometry (drawing options are   *)
(* left out).  The caller builds ori, gets f by copy() or by building a    *)
(* second shape, flips either, and adds and removes them.                  *)
(***************************************************************************)
_add_point(figs, gem) == Append(figs, [fig |-> gem])

_add_gem(figs, gem) == Append(figs, [fig |-> gem])

\* Canvas.add of one Geometry2D, by reference
add(figs, objects, gem) ==
    IF objects[gem].gem_type = "Point2D" THEN _add_point(figs, gem) ELSE _add_gem(figs, gem)

DeleteAt(figs, i) == SubSeq(figs, 1, i - 1) \o SubSeq(figs, i + 1, Len(figs))

\* Canvas.remove: the first entry whose figure hashes as gem does is deleted
remove(figs, objects, gem) ==
    LET hits == {i \in 1..Len(figs) : hash(objects[figs[i].fig]) = hash(objects[gem])}
    IN  IF hits = {} THEN figs
        ELSE DeleteAt(figs, CHOOSE i \in hits : \A j \in hits : i <= j)

\* f = a second shape built separately
canvas_build ==
    /\ ref["f"] = 0
    /\ \E g \in Shapes(Len(heap) + 1) :
          /\ ~g.exc
          /\ heap' = Append(heap, g.obj)
    /\ ref' = [ref EXCEPT !["f"] = Len(heap) + 1]
    /\ Called("construct", "init", "f", FALSE)
    /\ UNCHANGED <<gems, calls, ctor>>
    /\ TransformIdle

canvas_add ==
    \E h \in Handles :
        /\ ref[h] # 0
        /\ Len(gems) < MaxGems
        /\ gems' = add(gems, heap, ref[h])
        /\ Called("add", "add", h, FALSE)
        /\ UNCHANGED <<heap, ref, calls, ctor>>
        /\ TransformIdle

canvas_remove ==
    \E h \in Handles :
        /\ ref[h] # 0
        /\ gems' = remove(gems, heap, ref[h])
        /\ Called("remove", "remove", h, FALSE)
        /\ UNCHANGED <<heap, ref, calls, ctor>>
        /\ TransformIdle

\* Canvas.__getitem__; self.gems[item] is the list's own indexing
__getitem__(figs, item) ==
    IF Len(figs) >= item THEN [exc |-> "IndexError", ret |-> 0]
    ELSE IF item >= Len(figs) \/ item < -Len(figs) THEN [exc |-> "IndexError", ret |-> 0]
    ELSE [exc |-> "", ret |-> figs[(item % Len(figs)) + 1].fig]

\* canvas[item]
canvas_getitem ==
    \E item \in -1..MaxGems :
        /\ last' = [op |-> "getitem", h |-> "ori", raised |-> __getitem__(gems, item).exc # "",
                    item |-> item, exc |-> __getitem__(gems, item).exc,
                    ret |-> __getitem__(gems, item).ret]
        /\ UNCHANGED <<heap, ref, gems, calls, ctor>>
        /\ TransformIdle

Flipping == calls < MaxFlips

NextCanvas ==
    \/ canvas_build
    \/ gem_copy
    \/ Flipping /\ gem_flipX
    \/ Flipping /\ gem_flipY
    \/ canvas_add
    \/ canvas_remove
    \/ canvas_getitem

SpecCanvas == Init /\ [][NextCanvas]_vars

(***************************************************************************)
(* C2: Canvas.remove(g) deletes at most one draw-list entry and only an    *)
(* entry whose figure is g itself (never the entry of a copy of g, of a    *)
(* shape built separately with the same parameters, or of a copy that was  *)
(* flipped differently); every other entry keeps its relative order.       *)
(***************************************************************************)
C2_RemoveDeletesOnlyTheGivenFigure ==
    [][last'.op = "remove" =>
          \/ gems' = gems
          \/ \E i \in 1..Len(gems) :
                /\ gems[i].fig = ref[last'.h]
                /\ gems' = DeleteAt(gems, i)]_vars

(***************************************************************************)
(* Construction calls.  The caller writes ori = Class(...) with keyword    *)
(* arguments, once: a behaviour is one constructor call and its outcome.   *)
(* Sizes are even so that half a size is an integer.                       *)
(***************************************************************************)
Sizes == {-2, 0, 2, 4}

VertexCounts == 2..MaxVertex

DotCounts == -1..MaxDots

\* keyword arguments: a value for `name`, or the argument left out
OptKw(name, values) == {NoKw} \cup {Kw(name, v) : v \in values}

Nums(S) == {PyNum(x) : x \in S}

NoCall == [cls |-> "", kwargs |-> NoKw, exc |-> FALSE]

Construct(cls, kwargs, out) ==
    /\ ctor.cls = ""
    /\ ctor' = [cls |-> cls, kwargs |-> kwargs, exc |-> out.exc]
    /\ heap' = IF out.exc THEN heap ELSE <<out.obj>>
    /\ ref' = IF out.exc THEN ref ELSE [ref EXCEPT !["ori"] = 1]
    /\ Called("construct", "init", "ori", out.exc)
    /\ UNCHANGED <<gems, calls>>
    /\ TransformIdle

new_RegularPolygon ==
    \E s \in OptKw("size", Nums(Sizes)), v \in OptKw("num_vertex", Nums(VertexCounts)),
       n \in OptKw("num_dot", Nums(DotCounts)) :
        Construct("RegularPolygon", s @@ v @@ n, RegularPolygon(<<>>, s @@ v @@ n, 1))

new_ConcaveStar ==
    \E s \in OptKw("size", Nums(Sizes)), v \in OptKw("num_vertex", Nums(VertexCounts)),
       n \in OptKw("num_dot", Nums(DotCounts)) :
        Construct("ConcaveStar", s @@ v @@ n, ConcaveStar(<<>>, s @@ v @@ n, 1))

SideDots == {<<2, 2, 2, 2>>, <<2, 1, 2, 2>>, <<1, 2, 2, 2>>, <<2, 2, 3, 0>>, <<2, 2, 2>>}

\* a single number for `size`: whole, or one of 5/2 and 1/2
SizeArgs == Nums(Sizes) \cup {PyFloat(5, 2), PyFloat(1, 2)}

new_Rectangle ==
    \E s \in SizeArgs, n \in Nums(DotCounts \cup {4}) \cup {PyTuple(t) : t \in SideDots} :
        LET kwargs == Kw("size", s) @@ Kw("num_dot", n)
        IN  Construct("Rectangle", kwargs, Rectangle(<<>>, kwargs, 1))

new_Grid ==
    \E s \in SizeArgs,
       n \in Nums(DotCounts) \cup {PyTuple(<<r, c>>) : r, c \in 1..MaxDots} \cup {PyTuple(<<2, 2, 2>>)} :
        LET kwargs == Kw("size", s) @@ Kw("num_dot", n)
        IN  Construct("Grid", kwargs, Grid(<<>>, kwargs, 1))

\* by length and slope, or by two end-points
new_Segment ==
    \E ends \in {Kw("size", PyNum(60)) @@ Kw("slope", PyNum(0)),
                 Kw("size", PyNum(0)) @@ Kw("slope", PyNum(0)),
                 Kw("p1", PyTuple(<<0, 0>>)) @@ Kw("p2", PyTuple(<<12, 12>>)),
                 Kw("p1", PyTuple(<<0, 0>>)),
                 Kw("p1", PyTuple(<<0, 0>>)) @@ Kw("slope", PyNum(0))},
       n \in OptKw("num_dot", Nums(DotCounts)) :
        Construct("Segment", ends @@ n, Segment(<<>>, ends @@ n, 1))

TrapezoidSizes ==
    {PyTuple(<<8, 6>>), PyTuple(<<8, -6>>), PyTuple(<<-8, 6>>), PyTuple(<<8, 0>>),
     PyTuple(<<4, 3, 9>>), PyTuple(<<4, -9, -3>>), PyTuple(<<4, 3, -3>>),
     PyTuple(<<6, 8, 6, 8>>), PyTuple(<<8>>), PyNum(8)}

new_Trapezoid ==
    \E s \in TrapezoidSizes,
       n \in OptKw("num_dot", {PyNum(4), PyTuple(<<2, 2, 2, 2>>), PyTuple(<<2, 1, 2, 2>>),
                               PyTuple(<<2, 2, 2>>)}) :
        LET kwargs == Kw("size", s) @@ n
        IN  Construct("Trapezoid", kwargs, Trapezoid(<<>>, kwargs, 1))

InitC ==
    /\ heap = <<>>
    /\ ref = [h \in Handles |-> 0]
    /\ gems = <<>>
    /\ last = [op |-> "", h |-> "", raised |-> FALSE]
    /\ calls = 0
    /\ ctor = NoCall
    /\ mem = [i \in ArrIds |-> NoArr]
    /\ coords = <<>>
    /\ hist = <<>>
    /\ exc = ""

NextC ==
    \/ new_RegularPolygon
    \/ new_ConcaveStar
    \/ new_Rectangle
    \/ new_Grid
    \/ new_Segment
    \/ new_Trapezoid

SpecC == InitC /\ [][NextC]_vars

\* the value passed for an argument by the last constructor call
Passed(name) == ctor.kwargs[name]

PassedNum(name) == name \in DOMAIN ctor.kwargs /\ isNumber(Passed(name))

(***************************************************************************)
(* C9: constructing a RegularPolygon or a ConcaveStar with num_vertex = 2  *)
(* raises and yields no geometry; with num_vertex = 3, a positive size and *)
(* at least 2 dots per edge the construction succeeds.                     *)
(***************************************************************************)
C9_PolygonNeedsThreeVertices ==
    ctor.cls \in {"RegularPolygon", "ConcaveStar"} /\ PassedNum("num_vertex") =>
        /\ Passed("num_vertex").n = 2 => ctor.exc /\ last.raised
        /\ (/\ Passed("num_vertex").n = 3
            /\ PassedNum("size") /\ Passed("size").n > 0
            /\ PassedNum("num_dot") /\ Passed("num_dot").n >= 2)
             => /\ ~ctor.exc
                /\ heap[ref["ori"]].gem_type = ctor.cls
                /\ heap[ref["ori"]].attrs.nV = 3

\* a polygon with two vertices, a positive size and two dots or more was refused
C9_Witness ==
    /\ ctor.cls = "RegularPolygon"
    /\ PassedNum("num_vertex") /\ Passed("num_vertex").n = 2
    /\ PassedNum("size") /\ Passed("size").n > 0
    /\ PassedNum("num_dot") /\ Passed("num_dot").n >= 2
    /\ ctor.exc
    /\ ref["ori"] = 0

\* the dot counts passed by the last constructor call
DotsPassed ==
    IF "num_dot" \notin DOMAIN ctor.kwargs THEN {}
    ELSE IF isNumber(Passed("num_dot")) THEN {Passed("num_dot").n}
    ELSE {Passed("num_dot").v[i] : i \in DOMAIN Passed("num_dot").v}

(***************************************************************************)
(* C10: RegularPolygon, Rectangle (each side), Grid (rows and columns) and *)
(* Segment raise at construction when a dot count below 2 is passed.       *)
(***************************************************************************)
C10_DotCountBelowTwoRejected ==
    /\ ctor.cls \in {"RegularPolygon", "Rectangle", "Grid", "Segment"}
    /\ \E d \in DotsPassed : d < 2
    => ctor.exc

\* the numbers passed as `size` by the last constructor call, each as n / d
SizesPassed ==
    IF "size" \notin DOMAIN ctor.kwargs THEN {}
    ELSE IF isNumber(Passed("size")) THEN {<<Passed("size").n, Passed("size").d>>}
    ELSE {<<Passed("size").v[i], 1>> : i \in DOMAIN Passed("size").v}

(***************************************************************************)
(* C11: a constructor call that passes a non-positive size (a number, or a *)
(* member of the list of lengths) raises and yields no geometry.           *)
(***************************************************************************)
C11_NonPositiveSizeRejected ==
    /\ ctor.cls # ""
    /\ \E x \in SizesPassed : x[1] <= 0
    => ctor.exc /\ ref["ori"] = 0

\* every dot count passed is 2 or more, and as many are passed as the class takes
DotsAccepted ==
    /\ "num_dot" \in DOMAIN ctor.kwargs
    /\ \A d \in DotsPassed : d >= 2
    /\ \/ ctor.cls = "Grid" /\ (isNumber(Passed("num_dot")) \/ Len(Passed("num_dot").v) = 2)
       \/ ctor.cls = "Rectangle" /\ ~isNumber(Passed("num_dot")) /\ Len(Passed("num_dot").v) = 4

(***************************************************************************)
(* C12: a Rectangle or Grid built from a single number s = n/d as its size *)
(* has height and width exactly s; a positive s that is not whole is       *)
(* accepted like any other positive size.                                  *)
(***************************************************************************)
C12_SingleSizeIsKeptExactly ==
    ctor.cls \in {"Rectangle", "Grid"} /\ PassedNum("size") =>
        /\ ~ctor.exc => /\ heap[ref["ori"]].attrs.h * Passed("size").d = Passed("size").n
                        /\ heap[ref["ori"]].attrs.w * Passed("size").d = Passed("size").n
        /\ Passed("size").n > 0 /\ DotsAccepted => ~ctor.exc


(***************************************************************************)
(* The functions of calc.coords and misc, each called once on an input     *)
(* drawn from a catalogue.  `last` records the call: the function, its     *)
(* arguments and the value returned; `exc` the exception raised, if any.   *)
(***************************************************************************)
\* rows of an input array of the calc functions
MaxRows == 3

NoCalc == [op |-> "", arg |-> <<>>, ret |-> <<>>]

InitCalc ==
    /\ mem = [i \in ArrIds |-> NoArr]
    /\ coords = <<>>
    /\ hist = <<>>
    /\ exc = ""
    /\ heap = <<>>
    /\ ref = <<>>
    /\ gems = <<>>
    /\ last = NoCalc
    /\ calls = 0
    /\ ctor = <<>>

CalcIdle == UNCHANGED <<hist, heap, ref, gems, calls, ctor>>

\* inputs of to_ndarray: point lists, flat lists, lists of longer or shorter rows
ArrayInputs ==
    {Arr2(rows) : rows \in SeqsUpTo(InputPoints, MaxRows) \ {<<>>}}
        \cup {Arr1(<<>>), Arr1(<<5>>), Arr1(<<1, 2>>), Arr1(<<1, 2, 3>>),
              Arr2(<<<<1, 2, 3>>>>), Arr2(<<<<0, 2, 3>>, <<3, 4, 5>>>>), Arr2(<<<<7>>, <<8>>>>)}

\* calc.coords.to_ndarray (the same text as transform2D.to_ndarray) called on
\* the array the caller holds as mem[1]
call_to_ndarray ==
    \E a \in ArrayInputs :
        LET r == to_ndarray([i \in ArrIds |-> IF i = 1 THEN a ELSE NoArr], 1)
        IN  /\ last.op = ""
            /\ mem' = [i \in ArrIds |-> IF i = 1 \/ (~r.exc /\ i = r.ret) THEN r.mem[i] ELSE NoArr]
            /\ coords' = IF r.exc THEN <<1>> ELSE <<1, r.ret>>
            /\ exc' = r.err
            /\ last' = [op |-> "to_ndarray", arg |-> a, ret |-> IF r.exc THEN 0 ELSE r.ret]
            /\ CalcIdle

\* a Python list of values
PyList(v) == [t |-> "list", n |-> 0, d |-> 1, s |-> "", v |-> v, shape |-> <<>>]

\* len(p[0]) of a list or an array with two axes
LenOfFirst(p) == IF p.t = "ndarray" THEN p.shape[2] ELSE Len(p.v[1].v)

\* misc.isPointSet and calc.coords._isPointSet (the same text).  p[0] of an
\* empty list or array raises IndexError; len(p[0]) of an array with one axis
\* raises TypeError.
isPointSet(p, dim) ==
    LET false == [err |-> "", ret |-> FALSE]
        empty == IF p.t = "list" THEN p.v = <<>> ELSE p.shape[1] = 0
    IN  IF p.t \notin {"list", "ndarray"} THEN false
        ELSE IF empty THEN [err |-> "IndexError", ret |-> FALSE]
        ELSE IF p.t = "list" /\ p.v[1].t # "list" THEN false
        ELSE IF p.t = "list" /\ (LenOfFirst(p) < 2 \/ LenOfFirst(p) > 3) THEN false
        ELSE IF dim # None /\ p.t = "ndarray" /\ Len(p.shape) = 1
        THEN [err |-> "TypeError", ret |-> FALSE]
        ELSE IF dim # None /\ LenOfFirst(p) # dim[1] THEN false
        ELSE IF p.t = "ndarray" /\ (Len(p.shape) # 2 \/ p.shape[2] < 2 \/ p.shape[2] > 3)
        THEN false
        ELSE [err |-> "", ret |-> TRUE]

NumList(nums) == PyList([i \in DOMAIN nums |-> PyNum(nums[i])])

ListOfLists(rows) == PyList([i \in DOMAIN rows |-> NumList(rows[i])])

\* a sequence: the values are of different kinds and are never compared
PointSetInputs ==
    <<PyNum(3), PyTuple(<<3, 4>>), NumList(<<3, 4>>), PyList(<<NumList(<<3, 4>>), PyNum(7)>>),
      PyArray(<<2, 2>>, <<3, 5, 1, 2>>), PyArray(<<1, 3>>, <<1, 2, 5>>), PyArray(<<3>>, <<1, 2, 5>>),
      PyArray(<<2, 1>>, <<1, 2>>), PyArray(<<1, 4>>, <<1, 2, 3, 4>>),
      ListOfLists(<<<<3, 4>>>>), ListOfLists(<<<<3>>>>), ListOfLists(<<<<3, 4>>, <<1, 2>>>>),
      ListOfLists(<<<<3, 4>>, <<5>>>>), ListOfLists(<<<<3, 4>>, <<5, 6, 7>>>>),
      ListOfLists(<<<<1, 2, 3>>, <<4, 5, 6>>>>), ListOfLists(<<<<1, 2, 3, 4>>>>),
      ListOfLists(<<<<3>>, <<3, 4>>>>)>>

call_isPointSet ==
    \E i \in DOMAIN PointSetInputs, dim \in {None, Some(2), Some(3)} :
        LET p == PointSetInputs[i]
            r == isPointSet(p, dim)
        IN  /\ last.op = ""
            /\ exc' = r.err
            /\ last' = [op |-> "isPointSet", arg |-> <<p, dim>>, ret |-> r.ret]
            /\ UNCHANGED <<mem, coords>>
            /\ CalcIdle

\* the rows of an array with two axes as an ndarray value
AsArray(rows) ==
    LET d == Len(rows[1])
    IN  PyArray(<<Len(rows), d>>,
                [i \in 1..(Len(rows) * d) |-> rows[((i - 1) \div d) + 1][((i - 1) % d) + 1]])

\* np.sqrt of a number: kept as the number it is the root of
np_sqrt(x) == [sqrt |-> x]

RECURSIVE SumTo(_, _)
\* f(1) + ... + f(n)
SumTo(f(_), n) == IF n = 0 THEN 0 ELSE SumTo(f, n - 1) + f(n)

Max(x, y) == IF x >= y THEN x ELSE y

\* calc.coords.mesh_dist for arrays a of shape (A, d) and b of shape (B, e):
\* a[:, None] has shape (A, 1, d) and b[:, :, None] shape (B, e, 1); their
\* difference broadcasts to (max(A, B), e, d) when A = B or one of them is 1,
\* and raises ValueError otherwise; sum(0) adds along the first axis.
mesh_dist(a, b) ==
    LET A == Len(a)
        B == Len(b)
        d == Len(a[1])
        e == Len(b[1])
        row(x, i) == IF Len(x) = 1 THEN x[1] ELSE x[i]
        sq(j, k) == LET term(i) == (row(a, i)[k] - row(b, i)[j]) * (row(a, i)[k] - row(b, i)[j])
                    IN  SumTo(term, Max(A, B))
    IN  IF ~isPointSet(AsArray(a), None).ret \/ ~isPointSet(AsArray(b), None).ret
        THEN [err |-> "ValueError", ret |-> <<>>]
        ELSE IF A # B /\ A # 1 /\ B # 1 THEN [err |-> "ValueError", ret |-> <<>>]
        ELSE [err |-> "", ret |-> [j \in 1..e |-> [k \in 1..d |-> np_sqrt(sq(j, k))]]]

MeshPoints == {<<0, 0>>, <<1, 0>>, <<1, 2>>}

\* point sets of 1..MaxLen + 1 rows, and the two arrays of test_mesh_dist
MeshInputs ==
    {<<a, b>> : a, b \in SeqsUpTo(MeshPoints, MaxLen + 1) \ {<<>>}}
        \cup {<<<<<<1, 0, 0>>, <<0, 1, 0>>, <<0, 0, 1>>>>, <<<<1, 1, 0>>, <<0, 1, 1>>, <<1, 0, 1>>>>>>}

call_mesh_dist ==
    \E ab \in MeshInputs :
        LET r == mesh_dist(ab[1], ab[2])
        IN  /\ last.op = ""
            /\ exc' = r.err
            /\ last' = [op |-> "mesh_dist", arg |-> ab, ret |-> r.ret]
            /\ UNCHANGED <<mem, coords>>
            /\ CalcIdle

\* calc.coords.rotate_2D of a list or an array of points: np.dot(xy, r) with
\* r = [[c, -s], [s, c]], for the angle v/nV of a full turn
rotate_2D_array(rows, v, nV) ==
    LET c == cos_turn(v, nV)
        sn == sin_turn(v, nV)
        r == <<<<c, -sn>>, <<sn, c>>>>
    IN  [i \in DOMAIN rows |-> [j \in 1..2 |-> rows[i][1] * r[1][j] + rows[i][2] * r[2][j]]]

RotateInputs ==
    {[point |-> TRUE, rows |-> <<p>>] : p \in InputPoints \cup {<<3, 0>>}}
        \cup {[point |-> FALSE, rows |-> rows] :
                rows \in SeqsUpTo(InputPoints \cup {<<3, 0>>}, MaxLen) \ {<<>>}}

\* rotate_2D called with a point (a tuple: _isPoint holds) or with an array of
\* 1..MaxLen points (for which _isPoint fails), by q quarter turns
call_rotate_2D ==
    \E xy \in RotateInputs, q \in 0..3 :
        /\ last.op = ""
        /\ exc' = ""
        /\ last' = [op |-> "rotate_2D", arg |-> <<xy, q>>,
                    ret |-> IF xy.point THEN rotate_2D(xy.rows[1][1], xy.rows[1][2], q, 4)
                            ELSE rotate_2D_array(xy.rows, q, 4)]
        /\ UNCHANGED <<mem, coords>>
        /\ CalcIdle

NextCalc ==
    \/ call_to_ndarray
    \/ call_isPointSet
    \/ call_mesh_dist
    \/ call_rotate_2D

SpecCalc == InitCalc /\ [][NextCalc]_vars

RowsOfLength(p, k) ==
    /\ p.t = "list"
    /\ p.v # <<>>
    /\ \A i \in DOMAIN p.v :
        /\ p.v[i].t = "list"
        /\ Len(p.v[i].v) = k
        /\ \A j \in DOMAIN p.v[i].v : isNumber(p.v[i].v[j])

(***************************************************************************)
(* C14: isPointSet(p, dim) returns True exactly when p is a list of rows   *)
(* or an array with two axes whose rows all are points of one dimension k, *)
(* k being 2 or 3 and equal to dim when dim is given.                      *)
(***************************************************************************)
C14_IsPointSetExact ==
    last.op = "isPointSet" =>
        LET p == last.arg[1]
            dim == last.arg[2]
            ks == IF dim = None THEN {2, 3} ELSE {dim[1]} \cap {2, 3}
        IN  /\ exc = ""
            /\ last.ret <=> \E k \in ks :
                               \/ RowsOfLength(p, k)
                               \/ p.t = "ndarray" /\ Len(p.shape) = 2 /\ p.shape[2] = k

\* the square of the Euclidean distance between the points p and q
SquaredDistance(p, q) ==
    LET term(k) == (p[k] - q[k]) * (p[k] - q[k]) IN SumTo(term, Len(p))

(***************************************************************************)
(* C15: for point sets a of A rows and b of B rows of one dimension,       *)
(* mesh_dist(a, b) returns an A x B matrix whose entry (i, j) is the       *)
(* Euclidean distance between a[i] and b[j].                               *)
(***************************************************************************)
C15_MeshDistIsPairwise ==
    last.op = "mesh_dist" =>
        LET a == last.arg[1]
            b == last.arg[2]
        IN  /\ exc = ""
            /\ Len(last.ret) = Len(a)
            /\ \A i \in DOMAIN last.ret :
                /\ Len(last.ret[i]) = Len(b)
                /\ \A j \in DOMAIN last.ret[i] :
                        last.ret[i][j] = np_sqrt(SquaredDistance(a[i], b[j]))

(***************************************************************************)
(* C16: rotate_2D of an array of points returns, row by row, what          *)
(* rotate_2D returns for the point of that row, the anticlockwise rotation *)
(* about the origin: (3, 0) turned by a quarter turn is (0, 3) either way. *)
(***************************************************************************)
C16_RotateArrayAsPoints ==
    last.op = "rotate_2D" =>
        LET xy == last.arg[1]
            q == last.arg[2]
        IN  /\ ~xy.point =>
                \A i \in DOMAIN xy.rows :
                    /\ last.ret[i] = rotate_2D(xy.rows[i][1], xy.rows[i][2], q, 4)
                    /\ xy.rows[i] = <<3, 0>> /\ q = 1 => last.ret[i] = <<0, 3>>
            /\ xy.point /\ xy.rows[1] = <<3, 0>> /\ q = 1 => last.ret = <<0, 3>>


(***************************************************************************)
(* Measurements.  A geometry is built, translated at most MaxT times, and  *)
(* read.  `last` records the call with its name and the value returned;    *)
(* `hist` lists the bounding boxes read since the last transform.          *)
(***************************************************************************)
\* bounding boxes read between two transforms
MaxReads == 2

Col(rows, c) == [i \in DOMAIN rows |-> rows[i][c]]

\* min(xs) and max(xs) of a sequence of numbers
min(xs) == CHOOSE x \in {xs[i] : i \in DOMAIN xs} : \A i \in DOMAIN xs : x <= xs[i]

max(xs) == CHOOSE x \in {xs[i] : i \in DOMAIN xs} : \A i \in DOMAIN xs : x >= xs[i]

\* Geometry2D.coordsXY
coordsXY(self) == <<Col(self._points, 1), Col(self._points, 2)>>

\* Geometry2D.bounding_box
Geometry2D_bounding_box(self) ==
    LET xs == coordsXY(self)[1]
        ys == coordsXY(self)[2]
    IN  <<min(xs), min(ys), max(xs), max(ys)>>

\* calc.coords.bounding_box of an array
bounding_box(coord) ==
    IF ~isPointSet(AsArray(coord), None).ret THEN [err |-> "ValueError", ret |-> <<>>]
    ELSE [err |-> "",
          ret |-> <<min(Col(coord, 1)), min(Col(coord, 2)), max(Col(coord, 1)), max(Col(coord, 2))>>]

\* Geometry2D.center: np.mean of each axis
center(self) ==
    <<Div(SumCol(self._points, 1), Len(self._points)), Div(SumCol(self._points, 2), Len(self._points))>>

\* Geometry2D.dim
dim(self) ==
    LET b == Geometry2D_bounding_box(self) IN <<b[3] - b[1], b[4] - b[2]>>

\* Geometry2D.rad: dist((mx, my), (Mx, My))/2, half the root of a sum of squares
rad(self) ==
    LET b == Geometry2D_bounding_box(self)
    IN  [half |-> np_sqrt(SquaredDistance(<<b[1], b[2]>>, <<b[3], b[4]>>))]

Shifts == {<<3, -7>>, <<-1, 2>>}

\* the shapes measured: a point, two grids, a triangle and a square
Measured(n) ==
    {Point2D(<<PyNum(1), PyNum(2)>>, NoKw, n),
     Grid(<<>>, SizeAndDots(2, 2), n),
     Grid(<<>>, Kw("height", PyNum(10)) @@ Kw("width", PyNum(6)) @@ Kw("num_dot", PyNum(3)), n),
     PointSet2D(<<<<0, 0>>, <<2, 0>>, <<0, 2>>>>, TRUE, n),
     RegularPolygon(<<>>, SizeAndDots(2, 2) @@ ("num_vertex" :> PyNum(4)), n)}

InitM ==
    /\ \E g \in Measured(1) : ~g.exc /\ heap = <<g.obj>>
    /\ ref = [h \in Handles |-> IF h = "ori" THEN 1 ELSE 0]
    /\ gems = <<>>
    /\ last = [op |-> "construct", h |-> "ori", raised |-> FALSE, name |-> "init", ret |-> <<>>]
    /\ calls = 0
    /\ ctor = <<>>
    /\ mem = [i \in ArrIds |-> NoArr]
    /\ coords = <<>>
    /\ hist = <<>>
    /\ exc = ""

\* Geometry2D.translate through the decorator `transform`
translate_by ==
    \E h \in Handles, d \in Shifts :
        /\ ref[h] # 0
        /\ calls < MaxT
        /\ LET t == transform(Self(h), <<PyNum(d[1]), PyNum(d[2])>>, NoKw,
                              Outcome(translate(OnPoints(Self(h)), 1, d[1], d[2])))
           IN  /\ heap' = [heap EXCEPT ![ref[h]] = t.obj]
               /\ last' = [op |-> "transform", h |-> h, raised |-> t.exc,
                           name |-> "translate", ret |-> d]
        /\ calls' = calls + 1
        /\ hist' = <<>>
        /\ UNCHANGED <<ref, gems, ctor, mem, coords, exc>>

\* a read of the geometry of h: the object afterwards and the value returned
Measure(h, name, obj, ret, raised) ==
    /\ ref[h] # 0
    /\ name = "bounding_box" => Len(hist) < MaxReads
    /\ heap' = [heap EXCEPT ![ref[h]] = obj]
    /\ last' = [op |-> "read", h |-> h, raised |-> raised, name |-> name, ret |-> ret]
    /\ hist' = IF name = "bounding_box" THEN Append(hist, [h |-> h, ret |-> ret]) ELSE hist
    /\ UNCHANGED <<ref, gems, calls, ctor, mem, coords, exc>>

read_coords == \E h \in Handles : Measure(h, "coords", Self(h), Self(h)._points, FALSE)

read_coordsXY == \E h \in Handles : Measure(h, "coordsXY", Self(h), coordsXY(Self(h)), FALSE)

read_bounding_box ==
    \E h \in Handles :
        Measure(h, "bounding_box", Self(h), Geometry2D_bounding_box(Self(h)), FALSE)

\* bounding_box(f.coords())
read_coords_bounding_box ==
    \E h \in Handles :
        Measure(h, "coords.bounding_box", Self(h), bounding_box(Self(h)._points).ret,
                bounding_box(Self(h)._points).err # "")

read_center == \E h \in Handles : Measure(h, "center", Self(h), center(Self(h)), FALSE)

read_dim == \E h \in Handles : Measure(h, "dim", Self(h), dim(Self(h)), FALSE)

read_rad == \E h \in Handles : Measure(h, "rad", Self(h), rad(Self(h)), FALSE)

\* exact fractions: <<n, d>> is n/d with d > 0, in lowest terms
RECURSIVE gcd(_, _)
gcd(a, b) == IF b = 0 THEN a ELSE gcd(b, a % b)

Frac(n, d) == <<n \div gcd(abs(n), d), d \div gcd(abs(n), d)>>

FracAdd(a, b) == Frac(a[1] * b[2] + b[1] * a[2], a[2] * b[2])

FracSub(a, b) == Frac(a[1] * b[2] - b[1] * a[2], a[2] * b[2])

FracMul(a, b) == Frac(a[1] * b[1], a[2] * b[2])

FracHalf(a) == Frac(a[1], 2 * a[2])

FracAbs(a) == <<abs(a[1]), a[2]>>

\* rows of integers as rows of fractions
AsFractions(rows) == [i \in DOMAIN rows |-> <<Frac(rows[i][1], 1), Frac(rows[i][2], 1)>>]

\* outer_product variant that takes q and r as vectors from the origin
outer_product_fromOrigin(p, q, r) ==
    IF r = None THEN FracSub(FracMul(p[1], q[2]), FracMul(q[1], p[2]))
    ELSE FracSub(FracMul(q[1], r[1][2]), FracMul(r[1][1], q[2]))

\* calc.coords.outer_product on fractions; r is None or Some(point)
outer_product(p, q, r) ==
    IF r = None THEN FracSub(FracMul(p[1], q[2]), FracMul(q[1], p[2]))
    ELSE FracSub(FracMul(FracSub(q[1], p[1]), FracSub(r[1][2], p[2])),
                 FracMul(FracSub(r[1][1], p[1]), FracSub(q[2], p[2])))

Rotated(xy, k) == [i \in DOMAIN xy |-> xy[((i - 1 + k) % Len(xy)) + 1]]

Reversed(xy) == [i \in DOMAIN xy |-> xy[Len(xy) + 1 - i]]

\* calc.geometry.concave_hull, the exterior points.  Fewer than 4 points are
\* returned as they are.  For the vertices xy of a simple polygon all of whose
\* edges the alpha shape keeps, dfs walks the ring from an end of the first
\* boundary edge, which the order of the Delaunay simplices decides, to a
\* neighbour the iteration of a set decides: any start, either direction.
exterior_points(xy) ==
    IF Len(xy) < 4 THEN {xy}
    ELSE {Rotated(xy, k) : k \in 0..(Len(xy) - 1)}
            \cup {Rotated(Reversed(xy), k) : k \in 0..(Len(xy) - 1)}

\* sum of outer_product(_ep[0], _ep[i], _ep[i+1])/2 for i in range(1, n)
RECURSIVE fan_sum(_, _)
fan_sum(_ep, n) ==
    IF n <= 1 THEN <<0, 1>>
    ELSE FracAdd(fan_sum(_ep, n - 1),
                 FracHalf(outer_product(_ep[1], _ep[n], Some(_ep[n + 1]))))

\* area variant that raises for a geometry that is not planar
area_raisesUnlessPlanar(self, _ep) ==
    IF ~self._planar THEN [exc |-> TRUE, warn |-> FALSE, ret |-> <<0, 1>>]
    ELSE IF _ep = None THEN [exc |-> TRUE, warn |-> FALSE, ret |-> <<0, 1>>]
    ELSE IF Len(_ep[1]) <= 2 THEN [exc |-> FALSE, warn |-> FALSE, ret |-> <<0, 1>>]
    ELSE [exc |-> FALSE, warn |-> FALSE, ret |-> FracAbs(fan_sum(_ep[1], Len(_ep[1]) - 1))]

\* Geometry2D.area; _ep is the first value concave_hull(self.coords()) returns,
\* Some(points) or None, and len(None) raises TypeError
area(self, _ep) ==
    IF ~self._planar THEN [exc |-> FALSE, warn |-> TRUE, ret |-> <<0, 1>>]
    ELSE IF _ep = None THEN [exc |-> TRUE, warn |-> FALSE, ret |-> <<0, 1>>]
    ELSE IF Len(_ep[1]) <= 2 THEN [exc |-> FALSE, warn |-> FALSE, ret |-> <<0, 1>>]
    ELSE [exc |-> FALSE, warn |-> FALSE, ret |-> FracAbs(fan_sum(_ep[1], Len(_ep[1]) - 1))]

read_area ==
    \E h \in Handles :
        /\ ref[h] # 0
        /\ \E _ep \in exterior_points(AsFractions(Self(h)._points)) :
            Measure(h, "area", Self(h), area(Self(h), Some(_ep)), area(Self(h), Some(_ep)).exc)

read_exterior ==
    \E h \in Handles :
        Measure(h, "exterior", exterior(Self(h)).obj, exterior(Self(h)).ret, FALSE)

read_interior ==
    \E h \in Handles, density \in Densities :
        Measure(h, "interior", interior(Self(h), density).obj, interior(Self(h), density).ret,
                interior(Self(h), density).exc)

\* ori == f
read_eq ==
    /\ ref["ori"] # 0
    /\ ref["f"] # 0
    /\ heap' = [i \in DOMAIN heap |->
                  IF i = ref["f"] THEN eq(Self("ori"), Self("f")).other
                  ELSE IF i = ref["ori"] THEN eq(Self("ori"), Self("f")).self
                  ELSE heap[i]]
    /\ last' = [op |-> "read", h |-> "ori", raised |-> FALSE, name |-> "eq",
                ret |-> eq(Self("ori"), Self("f")).ret]
    /\ UNCHANGED <<ref, gems, calls, ctor, mem, coords, hist, exc>>

\* f = ori.copy(), taken before the first transform
copy_of ==
    /\ ref["ori"] # 0
    /\ ref["f"] = 0
    /\ calls = 0
    /\ heap' = copy(heap, ref["ori"]).heap
    /\ ref' = [ref EXCEPT !["f"] = copy(heap, ref["ori"]).ret]
    /\ last' = [op |-> "copy", h |-> "f", raised |-> FALSE, name |-> "copy", ret |-> <<>>]
    /\ UNCHANGED <<gems, calls, ctor, mem, coords, hist, exc>>

NextM ==
    \/ translate_by
    \/ read_area
    \/ read_exterior
    \/ read_interior
    \/ read_eq
    \/ copy_of
    \/ read_coords
    \/ read_coordsXY
    \/ read_bounding_box
    \/ read_coords_bounding_box
    \/ read_center
    \/ read_dim
    \/ read_rad

SpecM == InitM /\ [][NextM]_vars

\* the box b moved by d
Shifted(b, d) == <<b[1] + d[1], b[2] + d[2], b[3] + d[1], b[4] + d[2]>>

(***************************************************************************)
(* C17: translate(dx, dy) moves the bounding box of the geometry by        *)
(* (dx, dy); a Grid of height 10 and width 6 built about the origin and    *)
(* translated by (3, -7) has the bounding box (0, -12, 6, -2).             *)
(***************************************************************************)
C17_TranslateShiftsBoundingBox ==
    [][\A h \in Handles :
          calls' # calls /\ last'.name = "translate" /\ last'.h = h =>
              LET before == heap[ref[h]]
                  after == heap'[ref[h]]
              IN  /\ ~last'.raised
                  /\ Geometry2D_bounding_box(after)
                        = Shifted(Geometry2D_bounding_box(before), last'.ret)
                  /\ bounding_box(after._points).ret = Geometry2D_bounding_box(after)
                  /\ (/\ before.gem_type = "Grid" /\ before.attrs.h = 10 /\ before.attrs.w = 6
                      /\ calls = 0 /\ last'.ret = <<3, -7>>)
                       => bounding_box(after._points).ret = <<0, -12, 6, -2>>]_vars

\* the Grid of the scenario after its translation
C17_Witness ==
    /\ calls = 1
    /\ last.name = "translate"
    /\ last.ret = <<3, -7>>
    /\ heap[ref["ori"]].gem_type = "Grid"
    /\ heap[ref["ori"]].attrs.h = 10
    /\ heap[ref["ori"]].attrs.w = 6
    /\ Geometry2D_bounding_box(heap[ref["ori"]]) = <<0, -12, 6, -2>>


(***************************************************************************)
(* C18: the reads coords, coordsXY, bounding_box, center, dim, rad, area,  *)
(* exterior, interior and == leave the points and the hash of every        *)
(* geometry as they were, and bounding_box returns what it returned before *)
(* when no transform came in between.                                      *)
(***************************************************************************)
C18_ReadsChangeNothing ==
    [][last'.op = "read" =>
          /\ DOMAIN heap' = DOMAIN heap
          /\ \A i \in DOMAIN heap :
                /\ heap'[i]._points = heap[i]._points
                /\ hash(heap'[i]) = hash(heap[i])
          /\ \A k \in DOMAIN hist :
                last'.name = "bounding_box" /\ hist[k].h = last'.h => hist[k].ret = last'.ret]_vars

\* bounding_box read twice after a translation
C18_Witness ==
    /\ calls >= 1
    /\ Len(hist) = 2
    /\ hist[1].h = hist[2].h
    /\ last.name = "bounding_box"


(***************************************************************************)
(* C19: area() of a geometry that is not planar returns 0 with a warning   *)
(* and raises nothing, before and after a transform, and leaves the        *)
(* geometry as it was.                                                     *)
(***************************************************************************)
C19_AreaOfNonPlanarIsZero ==
    [][last'.op = "read" /\ last'.name = "area" /\ ~heap[ref[last'.h]]._planar =>
          /\ last'.ret.ret = <<0, 1>>
          /\ last'.ret.warn
          /\ ~last'.raised
          /\ heap' = heap]_vars

\* the area of a translated grid has been read
C19_Witness ==
    /\ calls >= 1
    /\ last.op = "read"
    /\ last.name = "area"
    /\ ~heap[ref[last.h]]._planar
    /\ heap[ref[last.h]]._points # heap[ref[last.h]].attrs.points
    /\ last.ret.warn


(***************************************************************************)
(* The area of polygons.  A Polygon2D is built from vertices whose         *)
(* coordinates are fractions, and its area is read.                        *)
(***************************************************************************)
\* the point (a/b, c/d)
Pt(a, b, c, d) == <<Frac(a, b), Frac(c, d)>>

CornerPoints == {Pt(0, 1, 0, 1), Pt(3, 1, 0, 1), Pt(0, 1, 2, 1), Pt(1, 2, 1, 1), Pt(3, 1, 3, 1)}

\* Polygon2D([[0,0], [3,0], [3,3], [2,1.5]])
Dart == <<Pt(0, 1, 0, 1), Pt(3, 1, 0, 1), Pt(3, 1, 3, 1), Pt(2, 1, 3, 2)>>

\* one vertex, two vertices, every triangle on CornerPoints, and three
\* quadrilaterals: the dart, a square and a rectangle given clockwise
Polygons ==
    {<<Pt(1, 1, 2, 1)>>, <<Pt(0, 1, 0, 1), Pt(3, 1, 3, 1)>>}
        \cup {<<a, b, c>> : a, b, c \in CornerPoints}
        \cup {Dart,
              <<Pt(0, 1, 0, 1), Pt(2, 1, 0, 1), Pt(2, 1, 2, 1), Pt(0, 1, 2, 1)>>,
              <<Pt(0, 1, 0, 1), Pt(0, 1, 1, 1), Pt(3, 1, 1, 1), Pt(3, 1, 0, 1)>>}

InitArea ==
    /\ heap = <<>>
    /\ ref = [h \in Handles |-> 0]
    /\ gems = <<>>
    /\ last = [op |-> "", h |-> "ori", raised |-> FALSE, name |-> "", ret |-> <<>>]
    /\ calls = 0
    /\ ctor = <<>>
    /\ mem = [i \in ArrIds |-> NoArr]
    /\ coords = <<>>
    /\ hist = <<>>
    /\ exc = ""

\* ori = Polygon2D(vertices)
new_Polygon2D ==
    \E vertices \in Polygons :
        /\ ref["ori"] = 0
        /\ ~Polygon2D(vertices, 1).exc
        /\ heap' = <<Polygon2D(vertices, 1).obj>>
        /\ ref' = [ref EXCEPT !["ori"] = 1]
        /\ last' = [op |-> "construct", h |-> "ori", raised |-> FALSE, name |-> "init",
                    ret |-> <<>>]
        /\ UNCHANGED <<gems, calls, ctor, mem, coords, hist, exc>>

\* ori.area()
area_of ==
    /\ ref["ori"] # 0
    /\ \E _ep \in exterior_points(Self("ori")._points) :
          last' = [op |-> "read", h |-> "ori", raised |-> area(Self("ori"), Some(_ep)).exc,
                   name |-> "area", ret |-> area(Self("ori"), Some(_ep))]
    /\ UNCHANGED <<heap, ref, gems, calls, ctor, mem, coords, hist, exc>>

NextArea ==
    \/ new_Polygon2D
    \/ area_of

SpecArea == InitArea /\ [][NextArea]_vars

\* the sum over i = 2..n of half the cross product of v[i] - v[1] and v[i+1] - v[1]
RECURSIVE SignedFan(_, _)
SignedFan(v, n) ==
    IF n <= 1 THEN <<0, 1>>
    ELSE LET ax == FracSub(v[n][1], v[1][1])
             ay == FracSub(v[n][2], v[1][2])
             bx == FracSub(v[n + 1][1], v[1][1])
             by == FracSub(v[n + 1][2], v[1][2])
         IN  FracAdd(SignedFan(v, n - 1), FracHalf(FracSub(FracMul(ax, by), FracMul(bx, ay))))

(***************************************************************************)
(* C20: area() of a planar geometry is the absolute value of the fan sum   *)
(* of outer_product(v0, vi, vi+1)/2 over its boundary ring, whichever      *)
(* vertex the ring starts at and whichever way it runs; the polygon        *)
(* (0,0), (3,0), (3,3), (2,1.5) has the area 3.75.                         *)
(***************************************************************************)
C20_AreaIsAbsoluteFanSum ==
    last.op = "read" /\ last.name = "area" /\ heap[ref["ori"]]._planar =>
        LET v == heap[ref["ori"]]._points
        IN  /\ ~last.raised
            /\ last.ret.ret = FracAbs(SignedFan(v, Len(v) - 1))
            /\ v = Dart => last.ret.ret = <<15, 4>>

\* the area of the dart has been read
C20_Witness ==
    /\ last.op = "read"
    /\ last.name = "area"
    /\ heap[ref["ori"]]._points = Dart
    /\ last.ret.ret = <<15, 4>>


(***************************************************************************)
(* calc.geometry.concave_hull, step by step.  `last` is the frame of the   *)
(* call: the points xy, the dict opp as the list of its items in insertion *)
(* order, neighbors, the worklist Q, the set ER, the boundary edges, the   *)
(* walk _idx and what is returned.  `hist` lists every edge ever put on Q. *)
(* Vertices are numbered from 0.  scipy's Delaunay is not part of the      *)
(* repository: its simplices are given with the points, in any order.      *)
(***************************************************************************)
Min(x, y) == IF x <= y THEN x ELSE y

\* sorted([i, j, k]) of a simplex given as a set
sorted(t) ==
    LET lo == CHOOSE x \in t : \A y \in t : x <= y
        hi == CHOOSE x \in t : \A y \in t : x >= y
    IN  <<lo, CHOOSE x \in t : x # lo /\ x # hi, hi>>

HasKey(opp, e) == \E x \in DOMAIN opp : opp[x].e = e

KeyAt(opp, e) == CHOOSE x \in DOMAIN opp : opp[x].e = e

\* opp[e]
Opp(opp, e) == opp[KeyAt(opp, e)].v

\* find_opp of concave_hull on st = [opp, neighbors]
find_opp(st, i, j, k) ==
    IF HasKey(st.opp, <<i, j>>)
    THEN [st EXCEPT !.opp[KeyAt(st.opp, <<i, j>>)].v = Append(@, k)]
    ELSE [opp |-> Append(st.opp, [e |-> <<i, j>>, v |-> <<k>>]),
          neighbors |-> [st.neighbors EXCEPT ![i + 1] = Append(@, j), ![j + 1] = Append(@, i)]]

dist2(p, q) == (p[1] - q[1]) * (p[1] - q[1]) + (p[2] - q[2]) * (p[2] - q[2])

\* twice the signed area of the triangle pa, pb, pc
cross2(pa, pb, pc) == (pb[1] - pa[1]) * (pc[2] - pa[2]) - (pc[1] - pa[1]) * (pb[2] - pa[2])

\* the radius filter of a simplex with area > 0: r < scale/alpha, where
\* r = a*b*c/(4*area), scale = dist((xs, ys), (xS, yS))/2 and alpha = 0.9,
\* that is 81 * (a*b*c)^2 < 100 * (2*area)^2 * (2*scale)^2
survives(xy, t) ==
    LET pa == xy[t[1] + 1]
        pb == xy[t[2] + 1]
        pc == xy[t[3] + 1]
        box == bounding_box(xy).ret
        diag2 == dist2(<<box[1], box[2]>>, <<box[3], box[4]>>)
        c2 == cross2(pa, pb, pc) * cross2(pa, pb, pc)
    IN  /\ c2 # 0
        /\ 81 * dist2(pa, pb) * dist2(pb, pc) * dist2(pa, pc) < 100 * c2 * diag2

\* the loop over tri.simplices
RECURSIVE triangles(_, _, _)
triangles(xy, simplices, n) ==
    IF n = 0 THEN [opp |-> <<>>, neighbors |-> [v \in DOMAIN xy |-> <<>>]]
    ELSE LET st == triangles(xy, simplices, n - 1)
             t == sorted(simplices[n])
         IN  IF ~survives(xy, t) THEN st
             ELSE find_opp(find_opp(find_opp(st, t[1], t[2], t[3]), t[2], t[3], t[1]),
                           t[1], t[3], t[2])

\* the keys of opp used by one triangle, in the order of the dict
RECURSIVE singles(_, _)
singles(opp, n) ==
    IF n = 0 THEN <<>>
    ELSE IF Len(opp[n].v) = 1 THEN Append(singles(opp, n - 1), opp[n].e)
    ELSE singles(opp, n - 1)

\* ring_edges variant without the edge from the last point to the first
ring_edges_open(xy) == [i \in 1..(Len(xy) - 1) |-> <<xy[i], xy[i + 1]>>]

\* [(xy[i], xy[(i+1)%len(xy)]) for i in range(len(xy))]
ring_edges(xy) == [i \in DOMAIN xy |-> <<xy[i], xy[(i % Len(xy)) + 1]>>]

Idle == [op |-> "", pc |-> "idle", xy |-> <<>>, opp |-> <<>>, neighbors |-> <<>>, Q |-> <<>>,
         ER |-> {}, edges |-> <<>>, idx |-> <<>>, ret |-> None, ret_edges |-> None,
         err |-> "", value |-> <<>>]

\* simplices lists up to this length are taken in every order
MaxShuffled == 4

\* the orders in which Delaunay may list the simplices q: every order of a
\* short list, every rotation of a longer one, forwards and backwards
Orders(q) ==
    IF Len(q) <= MaxShuffled
    THEN {[a \in DOMAIN q |-> q[f[a]]] :
            f \in {g \in [DOMAIN q -> DOMAIN q] : \A a, b \in DOMAIN q : g[a] = g[b] => a = b}}
    ELSE {Rotated(q, k) : k \in 0..(Len(q) - 1)}
            \cup {Rotated(Reversed(q), k) : k \in 0..(Len(q) - 1)}

\* four points in a zigzag: both simplices are too flat for the filter
Zigzag == [xy |-> <<<<0, 0>>, <<10, 1>>, <<20, 0>>, <<30, 1>>>>,
           simplices |-> <<{0, 1, 2}, {1, 2, 3}>>]

\* the polygon (0,0), (3,0), (3,3), (2,1.5) at twice its size
Dart2 == [xy |-> <<<<0, 0>>, <<6, 0>>, <<6, 6>>, <<4, 3>>>>,
          simplices |-> <<{0, 1, 3}, {1, 2, 3}, {0, 2, 3}>>]

\* a triangle about a point
Centred == [xy |-> <<<<0, 0>>, <<6, 0>>, <<3, 6>>, <<3, 2>>>>,
            simplices |-> <<{0, 1, 3}, {1, 2, 3}, {0, 2, 3}>>]

\* two small triangles far from each other
TwoClumps == [xy |-> <<<<0, 0>>, <<1, 0>>, <<0, 1>>, <<10, 0>>, <<11, 0>>, <<10, 1>>>>,
              simplices |-> <<{0, 1, 2}, {1, 3, 5}, {1, 2, 5}, {3, 4, 5}>>]

\* a rectangle about two points
Filled == [xy |-> <<<<0, 0>>, <<8, 0>>, <<8, 6>>, <<0, 6>>, <<2, 3>>, <<5, 3>>>>,
           simplices |-> <<{0, 1, 5}, {1, 2, 5}, {2, 3, 5}, {0, 4, 5}, {3, 4, 5}, {0, 3, 4}>>]

\* fewer than 4 points
Few == {<<>>, <<<<1, 2>>>>, <<<<0, 0>>, <<3, 3>>>>, <<<<0, 0>>, <<2, 0>>, <<0, 2>>>>,
        <<<<0, 2>>, <<0, 0>>, <<2, 0>>>>}

HullInputs ==
    {[xy |-> xy, simplices |-> <<>>] : xy \in Few} \cup {Zigzag, Dart2, Centred, TwoClumps, Filled}

InitHull ==
    /\ heap = <<>>
    /\ ref = [h \in Handles |-> 0]
    /\ gems = <<>>
    /\ last = Idle
    /\ calls = 0
    /\ ctor = <<>>
    /\ mem = [i \in ArrIds |-> NoArr]
    /\ coords = <<>>
    /\ hist = <<>>
    /\ exc = ""

HullIdle == UNCHANGED <<heap, ref, gems, calls, ctor, mem, coords, exc>>

\* concave_hull(xy) up to the worklist loop
hull_call ==
    /\ last.pc = "idle"
    /\ \E input \in HullInputs :
         IF Len(input.xy) < 4
         THEN /\ last' = [Idle EXCEPT !.op = "concave_hull", !.pc = "done", !.xy = input.xy,
                                      !.ret = Some(input.xy), !.ret_edges = Some(ring_edges(input.xy))]
              /\ hist' = <<>>
         ELSE \E simplices \in Orders(input.simplices) :
                LET st == triangles(input.xy, simplices, Len(simplices))
                    Q == singles(st.opp, Len(st.opp))
                IN  /\ last' = [Idle EXCEPT !.op = "concave_hull", !.pc = "erode",
                                            !.xy = input.xy, !.opp = st.opp,
                                            !.neighbors = st.neighbors, !.Q = Q]
                    /\ hist' = Q
    /\ HullIdle

\* list.remove(x): the first x is taken out; ValueError when x is absent
list_remove(l, x) ==
    IF \A a \in DOMAIN l : l[a] # x THEN [err |-> "ValueError", ret |-> l]
    ELSE LET at == CHOOSE a \in DOMAIN l : l[a] = x /\ \A b \in 1..(a - 1) : l[b] # x
         IN  [err |-> "", ret |-> [b \in 1..(Len(l) - 1) |-> IF b < at THEN l[b] ELSE l[b + 1]]]

\* erasable variant that lets every edge be erased
erasable_any(f, k) == TRUE

\* every edge from k to a neighbour is used by no or by two triangles
erasable(f, k) ==
    \A a \in DOMAIN f.neighbors[k + 1] :
        Len(Opp(f.opp, <<Min(f.neighbors[k + 1][a], k), Max(f.neighbors[k + 1][a], k)>>)) # 1

\* one iteration of `while Q`
erode ==
    /\ last.pc = "erode"
    /\ last.Q # <<>>
    /\ LET i == last.Q[Len(last.Q)][1]
           j == last.Q[Len(last.Q)][2]
           Q == SubSeq(last.Q, 1, Len(last.Q) - 1)
           v == Opp(last.opp, <<i, j>>)
       IN  IF v = <<>>
           THEN /\ last' = [last EXCEPT !.pc = "raised", !.Q = Q, !.err = "IndexError"]
                /\ hist' = hist
           ELSE LET k == v[1]
                    ik == <<Min(i, k), Max(i, k)>>
                    jk == <<Min(j, k), Max(j, k)>>
                    r1 == list_remove(Opp(last.opp, ik), j)
                    opp1 == [last.opp EXCEPT ![KeyAt(last.opp, ik)].v = r1.ret]
                    r2 == list_remove(Opp(opp1, jk), i)
                    opp2 == [opp1 EXCEPT ![KeyAt(opp1, jk)].v = r2.ret]
                IN  IF ~erasable(last, k)
                    THEN /\ last' = [last EXCEPT !.Q = Q]
                         /\ hist' = hist
                    ELSE IF r1.err # ""
                    THEN /\ last' = [last EXCEPT !.pc = "raised", !.Q = Q, !.err = r1.err,
                                                 !.ER = @ \cup {<<i, j>>}]
                         /\ hist' = hist
                    ELSE IF r2.err # ""
                    THEN /\ last' = [last EXCEPT !.pc = "raised", !.Q = Append(Q, ik),
                                                 !.err = r2.err, !.ER = @ \cup {<<i, j>>},
                                                 !.opp = opp1]
                         /\ hist' = Append(hist, ik)
                    ELSE /\ last' = [last EXCEPT !.Q = Append(Append(Q, ik), jk),
                                                 !.ER = @ \cup {<<i, j>>}, !.opp = opp2]
                         /\ hist' = Append(Append(hist, ik), jk)
    /\ HullIdle

\* boundary variant that keeps the edges in ER
boundary_withErased(opp, ER, n) == singles(opp, n)

\* the keys of opp used by one triangle and not in ER, in the order of the dict
RECURSIVE boundary(_, _, _)
boundary(opp, ER, n) ==
    IF n = 0 THEN <<>>
    ELSE IF Len(opp[n].v) = 1 /\ opp[n].e \notin ER
    THEN Append(boundary(opp, ER, n - 1), opp[n].e)
    ELSE boundary(opp, ER, n - 1)

\* after the loop: the boundary edges, and (None, None) for fewer than 3
select_edges ==
    /\ last.pc = "erode"
    /\ last.Q = <<>>
    /\ LET edges == boundary(last.opp, last.ER, Len(last.opp))
       IN  last' = IF Len(edges) < 3 THEN [last EXCEPT !.pc = "done", !.edges = edges]
                   ELSE [last EXCEPT !.pc = "walk", !.edges = edges, !.idx = <<edges[1][1]>>]
    /\ hist' = hist
    /\ HullIdle

\* adj[p]
adj(edges, p) ==
    {edges[a][2] : a \in {b \in DOMAIN edges : edges[b][1] = p}}
        \cup {edges[a][1] : a \in {b \in DOMAIN edges : edges[b][2] = p}}

Visited(idx) == {idx[a] : a \in DOMAIN idx}

\* dfs at the vertex p the walk has reached: it goes on to the first vertex of
\* adj[p] not yet visited, in the order the set adj[p] iterates, and returns
\* when there is none
dfs ==
    /\ last.pc = "walk"
    /\ LET p == last.idx[Len(last.idx)]
           open == adj(last.edges, p) \ Visited(last.idx)
           points == [a \in DOMAIN last.idx |-> last.xy[last.idx[a] + 1]]
       IN  IF open # {}
           THEN \E q \in open : last' = [last EXCEPT !.idx = Append(@, q)]
           ELSE last' = [last EXCEPT !.pc = "done", !.ret = Some(points),
                                      !.ret_edges = Some(ring_edges(points))]
    /\ hist' = hist
    /\ HullIdle

\* Polygon2D(xy).area(), whose call of concave_hull has returned
hull_area ==
    /\ last.pc = "done"
    /\ ~Polygon2D(last.xy, 1).exc
    /\ LET _ep == IF last.ret = None THEN None ELSE Some(AsFractions(last.ret[1]))
           a == area(Polygon2D(last.xy, 1).obj, _ep)
       IN  last' = [last EXCEPT !.op = "area", !.pc = "returned", !.value = a.ret,
                                !.err = IF a.exc THEN "TypeError" ELSE ""]
    /\ hist' = hist
    /\ HullIdle

\* Polygon2D(xy).exterior(), whose call of concave_hull has returned
hull_exterior ==
    /\ last.pc = "done"
    /\ ~Polygon2D(last.xy, 1).exc
    /\ last' = [last EXCEPT !.op = "exterior", !.pc = "returned", !.value = last.ret]
    /\ hist' = hist
    /\ HullIdle

NextHull ==
    \/ hull_call
    \/ hull_area
    \/ hull_exterior
    \/ erode
    \/ select_edges
    \/ dfs

SpecHull == InitHull /\ [][NextHull]_vars


\* calc.coords.concave_hull runs the same loop on the same frame f and returns
\* the points for fewer than 4 of them, the boundary edges otherwise
coords_concave_hull(f) ==
    IF Len(f.xy) < 4 THEN f.xy ELSE boundary(f.opp, f.ER, Len(f.opp))

(***************************************************************************)
(* C21: concave_hull of fewer than 4 points returns the points as given,   *)
(* in their order, with no triangulation, and the edges it returns join    *)
(* each point to the next and the last to the first.                       *)
(***************************************************************************)
C21_FewPointsPassThrough ==
    last.pc = "done" /\ Len(last.xy) < 4 =>
        /\ last.ret = Some(last.xy)
        /\ coords_concave_hull(last) = last.xy
        /\ last.opp = <<>>
        /\ hist = <<>>
        /\ last.err = ""
        /\ last.ret_edges # None
        /\ Len(last.ret_edges[1]) = Len(last.xy)
        /\ \A i \in DOMAIN last.xy :
              last.ret_edges[1][i]
                  = <<last.xy[i], IF i = Len(last.xy) THEN last.xy[1] ELSE last.xy[i + 1]>>

\* the hull of three points has been returned
C21_Witness ==
    /\ last.pc = "done"
    /\ Len(last.xy) = 3
    /\ last.ret = Some(last.xy)
    /\ last.ret_edges[1][3] = <<last.xy[3], last.xy[1]>>


(***************************************************************************)
(* C22: with fewer than 3 boundary edges left, concave_hull returns        *)
(* (None, None), and area() and exterior() of such a planar geometry       *)
(* return 0 and None and raise nothing.                                    *)
(***************************************************************************)
C22_DegenerateHullIsNotFatal ==
    /\ last.pc \in {"done", "returned"} /\ Len(last.xy) >= 4 /\ Len(last.edges) < 3 =>
            last.ret = None /\ last.ret_edges = None
    /\ last.pc = "returned" /\ last.ret = None =>
            /\ last.err = ""
            /\ last.op = "area" => last.value = <<0, 1>>
            /\ last.op = "exterior" => last.value = None


\* the worklist loop and the selection of the edges are run to their end
SpecHullFair == SpecHull /\ WF_vars(erode) /\ WF_vars(select_edges)

(***************************************************************************)
(* C27: the worklist loop of concave_hull ends; no edge is put on the      *)
(* worklist twice, no iteration reads the opposite vertex of an edge that  *)
(* has none, and none removes a vertex from a list that does not hold it.  *)
(***************************************************************************)
C27_ErosionTerminates ==
    /\ [](last.op = "concave_hull" =>
            /\ last.err = ""
            /\ \A a, b \in DOMAIN hist : hist[a] = hist[b] => a = b)
    /\ (last.pc = "erode") ~> (last.pc \in {"walk", "done"})

\* the loop has ended after it erased two edges
C27_Witness ==
    /\ last.pc = "walk"
    /\ Cardinality(last.ER) = 2
    /\ Len(hist) = 8

\* the vertices of the walk, joined in turn and the last to the first
WalkEdges(idx) ==
    {<<Min(idx[a], idx[(a % Len(idx)) + 1]), Max(idx[a], idx[(a % Len(idx)) + 1])>> :
        a \in DOMAIN idx}

EdgeSet(edges) == {edges[a] : a \in DOMAIN edges}

(***************************************************************************)
(* C28: when the loop has ended, the vertex opposite every boundary edge   *)
(* (used by one remaining triangle and not erased) is an endpoint of an    *)
(* edge used by one triangle, so that no boundary edge can still be        *)
(* erased, and no erased edge is among the edges returned.                 *)
(***************************************************************************)
C28_NoBoundaryEdgeErasable ==
    last.op = "concave_hull" /\ last.pc \in {"walk", "done"} /\ Len(last.xy) >= 4 =>
        /\ \A e \in EdgeSet(last.edges) :
              /\ Len(Opp(last.opp, e)) = 1
              /\ ~erasable(last, Opp(last.opp, e)[1])
              /\ \E g \in EdgeSet(last.edges) : Opp(last.opp, e)[1] \in {g[1], g[2]}
        /\ EdgeSet(last.edges) \cap last.ER = {}
        /\ last.ret # None => WalkEdges(last.idx) \cap last.ER = {}

\* a hull is returned after an erosion
C28_Witness ==
    /\ last.op = "concave_hull"
    /\ last.pc = "done"
    /\ last.ER # {}
    /\ last.ret # None

(***************************************************************************)
(* C29: the walk concave_hull returns visits every endpoint of a boundary  *)
(* edge once, and joins consecutive vertices, and the last to the first,   *)
(* by boundary edges, also when the boundary has several loops or meets    *)
(* itself at a vertex.                                                     *)
(***************************************************************************)
C29_WalkFollowsBoundary ==
    last.op = "concave_hull" /\ last.pc = "done" /\ last.ret # None /\ Len(last.xy) >= 4 =>
        /\ Visited(last.idx) = UNION {{e[1], e[2]} : e \in EdgeSet(last.edges)}
        /\ \A a, b \in DOMAIN last.idx : last.idx[a] = last.idx[b] => a = b
        /\ WalkEdges(last.idx) \subseteq EdgeSet(last.edges)


(***************************************************************************)
(* Line2D.  Coordinates and slopes are exact fractions; a gradient is the  *)
(* record [inf, v]: math.inf, or the fraction v.  The points and slopes of *)
(* the catalogue are of the types __init__ asks for.                       *)
(***************************************************************************)
FracDiv(a, b) ==
    IF b[1] < 0 THEN Frac(-(a[1] * b[2]), -(a[2] * b[1])) ELSE Frac(a[1] * b[2], a[2] * b[1])

FracLe(a, b) == a[1] * b[2] <= b[1] * a[2]

FracMin(a, b) == IF FracLe(a, b) THEN a ELSE b

FracMax(a, b) == IF FracLe(a, b) THEN b ELSE a

Slope(n, d) == [inf |-> FALSE, v |-> Frac(n, d)]

Inf == [inf |-> TRUE, v |-> <<0, 1>>]

\* Line2D.__init__: one of p2 and slope is given
Line2D(p1, p2, slope) ==
    IF (p2 = None /\ slope = None) \/ (p2 # None /\ slope # None)
    THEN [exc |-> TRUE, obj |-> <<>>]
    ELSE [exc |-> FALSE, obj |-> [p1 |-> p1, p2 |-> p2, slope |-> slope]]

\* Line2D.grad
grad(self) ==
    IF self.slope # None THEN self.slope[1]
    ELSE IF self.p1[1] = self.p2[1][1] THEN Inf
    ELSE [inf |-> FALSE,
          v |-> FracDiv(FracSub(self.p2[1][2], self.p1[2]), FracSub(self.p2[1][1], self.p1[1]))]

\* Line2D.parallel
parallel(self, other) == grad(self) = grad(other)

\* y = g*(x - p[0]) + p[1]
LineAt(g, p, x) == FracAdd(FracMul(g, FracSub(x, p[1])), p[2])

\* _intersect_line variant that takes x from self when other is vertical
_intersect_line_ownX(self, other) ==
    LET ga == grad(self)
        gb == grad(other)
    IN  IF parallel(self, other) THEN [warn |-> TRUE, ret |-> <<None, None>>]
        ELSE IF ga.inf
        THEN [warn |-> FALSE, ret |-> <<self.p1[1], LineAt(gb.v, other.p1, self.p1[1])>>]
        ELSE [warn |-> FALSE, ret |-> <<self.p1[1], LineAt(ga.v, self.p1, self.p1[1])>>]

\* Line2D._intersect_line
_intersect_line(self, other) ==
    LET ga == grad(self)
        gb == grad(other)
        rx == FracDiv(FracAdd(FracSub(FracSub(FracMul(ga.v, self.p1[1]),
                                              FracMul(gb.v, other.p1[1])),
                                      self.p1[2]),
                              other.p1[2]),
                      FracSub(ga.v, gb.v))
    IN  IF parallel(self, other) THEN [warn |-> TRUE, ret |-> <<None, None>>]
        ELSE IF ga.inf
        THEN [warn |-> FALSE, ret |-> <<self.p1[1], LineAt(gb.v, other.p1, self.p1[1])>>]
        ELSE IF gb.inf
        THEN [warn |-> FALSE, ret |-> <<other.p1[1], LineAt(ga.v, self.p1, other.p1[1])>>]
        ELSE [warn |-> FALSE, ret |-> <<rx, LineAt(ga.v, self.p1, rx)>>]

\* Line2D.on for a geometry with the points coord: the edges from each point
\* to the next and from the last to the first are tried in turn
on(self, coord) ==
    \E i \in DOMAIN coord :
        LET p == coord[i]
            q == coord[(i % Len(coord)) + 1]
            _l == Line2D(p, Some(q), None).obj
            r == _intersect_line(self, _l).ret
        IN  \/ parallel(self, _l)
            \/ /\ r[1] # None
               /\ FracLe(FracMin(p[1], q[1]), r[1])
               /\ FracLe(r[1], FracMax(p[1], q[1]))
               /\ FracLe(FracMin(p[2], q[2]), r[2])
               /\ FracLe(r[2], FracMax(p[2], q[2]))

\* the lines of test_line2D and others: parallel, vertical, horizontal
Lines ==
    {Line2D(Pt(-1, 1, 0, 1), Some(Pt(0, 1, 2, 1)), None).obj,
     Line2D(Pt(0, 1, 0, 1), Some(Pt(-2, 1, 1, 1)), None).obj,
     Line2D(Pt(1, 1, 0, 1), None, Some(Slope(3, 2))).obj,
     Line2D(Pt(3, 1, 3, 1), None, Some(Slope(3, 2))).obj,
     Line2D(Pt(0, 1, 0, 1), Some(Pt(6, 1, 9, 1)), None).obj,
     Line2D(Pt(2, 1, -1, 1), Some(Pt(2, 1, 5, 1)), None).obj,
     Line2D(Pt(-3, 1, 0, 1), Some(Pt(-3, 1, 1, 1)), None).obj,
     Line2D(Pt(1, 2, 1, 1), None, Some(Inf)).obj,
     Line2D(Pt(0, 1, 5, 1), None, Some(Slope(0, 1))).obj,
     Line2D(Pt(0, 1, 1, 1), Some(Pt(4, 1, 1, 1)), None).obj,
     Line2D(Pt(1, 1, 0, 1), None, Some(Slope(1, 2))).obj}

\* the points of the geometries a line is tried on: two triangles, a square
\* away from the origin, and the ends of a segment
LineGeometries ==
    {<<<<0, 0>>, <<2, 0>>, <<0, 2>>>>,
     <<<<-9, 3>>, <<-7, 3>>, <<-7, 5>>, <<-9, 5>>>>,
     <<<<4, 2>>, <<7, 3>>, <<5, 6>>>>,
     <<<<0, 3>>, <<3, 2>>>>}

NoLine == [op |-> "", self |-> <<>>, other |-> <<>>, ret |-> <<>>, warn |-> FALSE, err |-> ""]

InitLine ==
    /\ heap = <<>>
    /\ ref = [h \in Handles |-> 0]
    /\ gems = <<>>
    /\ last = NoLine
    /\ calls = 0
    /\ ctor = <<>>
    /\ mem = [i \in ArrIds |-> NoArr]
    /\ coords = <<>>
    /\ hist = <<>>
    /\ exc = ""

LineIdle == UNCHANGED <<heap, ref, gems, calls, ctor, mem, coords, hist, exc>>

\* a.intersect(b) and a & b for two lines
line_intersect ==
    /\ last.op = ""
    /\ \E a \in Lines, b \in Lines, op \in {"intersect", "and"} :
         last' = [op |-> op, self |-> a, other |-> b, ret |-> _intersect_line(a, b).ret,
                  warn |-> _intersect_line(a, b).warn, err |-> ""]
    /\ LineIdle

\* a.on(g) for a geometry g
line_on ==
    /\ last.op = ""
    /\ \E a \in Lines, points \in LineGeometries :
         /\ ~PointSet2D(points, FALSE, 1).exc
         /\ last' = [op |-> "on", self |-> a, other |-> PointSet2D(points, FALSE, 1).obj._points,
                     ret |-> on(a, AsFractions(PointSet2D(points, FALSE, 1).obj._points)),
                     warn |-> FALSE, err |-> ""]
    /\ LineIdle

NextLine ==
    \/ line_intersect
    \/ line_on

SpecLine == InitLine /\ [][NextLine]_vars

\* the direction of a line
Direction(l) ==
    IF l.slope # None THEN IF l.slope[1].inf THEN <<Frac(0, 1), Frac(1, 1)>>
                           ELSE <<Frac(1, 1), l.slope[1].v>>
    ELSE <<FracSub(l.p2[1][1], l.p1[1]), FracSub(l.p2[1][2], l.p1[2])>>

\* the cross product of the direction of l and the vector from l.p1 to p:
\* zero when p is on l, of opposite signs for points on opposite sides
Side(l, p) ==
    FracSub(FracMul(Direction(l)[1], FracSub(p[2], l.p1[2])),
            FracMul(Direction(l)[2], FracSub(p[1], l.p1[1])))

SameDirection(a, b) ==
    FracMul(Direction(a)[1], Direction(b)[2]) = FracMul(Direction(a)[2], Direction(b)[1])

(***************************************************************************)
(* C23: intersect and & of two parallel lines return (None, None) with a   *)
(* warning and raise nothing; of two other lines, one of which may be      *)
(* vertical, they return the point on both; the lines through (-1,0),(0,2) *)
(* and through (0,0),(-2,1) meet at (-0.8, 0.4).                           *)
(***************************************************************************)
C23_IntersectOfLines ==
    last.op \in {"intersect", "and"} =>
        /\ last.err = ""
        /\ SameDirection(last.self, last.other) => last.ret = <<None, None>> /\ last.warn
        /\ ~SameDirection(last.self, last.other) =>
              /\ last.ret[1] # None
              /\ Side(last.self, last.ret) = <<0, 1>>
              /\ Side(last.other, last.ret) = <<0, 1>>
        /\ (/\ last.self = Line2D(Pt(-1, 1, 0, 1), Some(Pt(0, 1, 2, 1)), None).obj
            /\ last.other = Line2D(Pt(0, 1, 0, 1), Some(Pt(-2, 1, 1, 1)), None).obj)
              => last.ret = <<Frac(-4, 5), Frac(2, 5)>>

\* a line by its slope has met a vertical line
C23_Witness ==
    /\ last.op = "and"
    /\ ~grad(last.self).inf
    /\ grad(last.other).inf
    /\ last.ret[1] # None
    /\ Side(last.self, last.ret) = <<0, 1>>

(***************************************************************************)
(* C24: on(geometry) is true exactly when the line meets an edge from a    *)
(* point of the geometry to the next, or from the last to the first: the   *)
(* two ends of the edge are not strictly on one side of the line.  An edge *)
(* parallel to the line and away from it does not make it true.            *)
(***************************************************************************)
C24_OnGeometry ==
    last.op = "on" =>
        (last.ret <=>
            \E i \in DOMAIN last.other :
                FracMul(Side(last.self, AsFractions(last.other)[i]),
                        Side(last.self, AsFractions(last.other)[(i % Len(last.other)) + 1]))[1] <= 0)

(***************************************************************************)
(* len(geometry).  Geometry2D.__len__ raises NotImplementedError and each  *)
(* class overrides it: PointSet2D (kept by Point2D, Pointcloud2D and Grid) *)
(* returns len(self.points), RegularPolygon nV*(nD-1), and Polygon2D       *)
(* returns the class NotImplementedError, for which len() raises TypeError.*)
(***************************************************************************)
__len__(self) ==
    IF self.gem_type \in {"PointSet2D", "Point2D", "Pointcloud2D", "Grid"}
    THEN [exc |-> FALSE, ret |-> Len(self.attrs.points)]
    ELSE IF self.gem_type = "RegularPolygon"
    THEN [exc |-> FALSE, ret |-> self.attrs.nV * (self.attrs.nD - 1)]
    ELSE [exc |-> TRUE, ret |-> 0]

\* len(h)
gem_len ==
    \E h \in Handles :
        /\ ref[h] # 0
        /\ last' = [op |-> "len", h |-> h, raised |-> __len__(Self(h)).exc,
                    ret |-> __len__(Self(h)).ret]
        /\ UNCHANGED <<heap, ref, gems, calls, ctor>>
        /\ TransformIdle

\* the shapes whose length is taken
ShapesLen(n) == Shapes(n) \cup {Polygon2D(<<<<0, 0>>, <<2, 0>>, <<0, 2>>>>, n)}

InitLen ==
    /\ \E g \in ShapesLen(1) : ~g.exc /\ heap = <<g.obj>>
    /\ ref = [h \in Handles |-> IF h = "ori" THEN 1 ELSE 0]
    /\ gems = <<>>
    /\ last = [op |-> "construct", h |-> "ori", raised |-> FALSE]
    /\ calls = 0
    /\ ctor = <<>>
    /\ mem = [i \in ArrIds |-> NoArr]
    /\ coords = <<>>
    /\ hist = <<>>
    /\ exc = ""

\* h.interior(density)
interior_at ==
    \E h \in Handles, density \in Densities :
        /\ ref[h] # 0
        /\ heap' = [heap EXCEPT ![ref[h]] = interior(Self(h), density).obj]
        /\ last' = [op |-> "interior", h |-> h, density |-> density,
                    raised |-> interior(Self(h), density).exc,
                    ret |-> interior(Self(h), density).ret]
        /\ UNCHANGED <<ref, gems, calls, ctor>>
        /\ TransformIdle

NextLen ==
    \/ Within /\ gem_translate
    \/ Within /\ gem_rotate
    \/ Within /\ gem_reflect
    \/ Within /\ gem_reflectX
    \/ Within /\ gem_reflectY
    \/ Within /\ gem_flipX
    \/ gem_copy
    \/ gem_len
    \/ interior_at

SpecLen == InitLen /\ [][NextLen]_vars

(***************************************************************************)
(* C25: len(g) returns the number of rows of g.coords(), at construction   *)
(* and after any transforms, the reflections among them, for every shape,  *)
(* Polygon2D and PointSet2D among them.                                    *)
(***************************************************************************)
C25_LenIsRowsOfCoords ==
    last.op = "len" => ~last.raised /\ last.ret = Len(Self(last.h)._points)

(***************************************************************************)
(* C26: interior(density) of a planar geometry returns the interior sample *)
(* of that density from the current exterior, whatever densities earlier   *)
(* calls of interior asked for: it raises nothing, returns a sample, and   *)
(* the geometry then holds the sample together with the density asked for. *)
(***************************************************************************)
C26_InteriorHasTheDensityAsked ==
    (last.op = "interior" /\ Self(last.h)._planar) =>
        /\ ~last.raised
        /\ last.ret # None
        /\ Self(last.h)._interior = last.ret
        /\ Self(last.h)._density = last.density

(***************************************************************************)
(* C30: after any adds and removes canvas[i] returns the figure of the     *)
(* i-th entry of the draw list for 0 <= i < len(canvas), and raises        *)
(* IndexError for an index outside that range only.                        *)
(***************************************************************************)
C30_GetItemIsTheDrawListEntry ==
    last.op = "getitem" =>
        IF 0 <= last.item /\ last.item < Len(gems)
        THEN last.exc = "" /\ last.ret = gems[last.item + 1].fig
        ELSE last.item >= Len(gems) => last.exc = "IndexError"

====
